---- MODULE Spec2Model ----
(***************************************************************************)
(* Pose2Play: rep extraction (demo/js/exerciseLogic.js, ExerciseManager),  *)
(* target adaptation and advisories (demo/js/mlIntegration.js,             *)
(* MLIntegration), the shoulder exercise module                            *)
(* (exercises/shoulderExercise.js) and its LSTM client                     *)
(* (utils/lstmClient.js).                                                  *)
(*                                                                         *)
(* Angles are JavaScript numbers (calculateAngle returns a float).  The    *)
(* model counts every angle in HALF DEGREES, so that Math.round is a real  *)
(* conversion: Deg(88) = 176 is 88 degrees, 177 is 88.5 degrees.           *)
(***************************************************************************)
EXTENDS Integers, Sequences, FiniteSets, TLC

VARIABLES
    em,        \* the ExerciseManager object (exerciseLogic.js)
    rest,      \* history: samples fed since the machine last left rest, and
               \* the number of rep records appended since then
    frames,    \* number of frame/driver steps taken (bounds the exploration)
    resets,    \* number of reset()/changeExercise() calls taken
    fn,        \* calculateComprehensiveTarget applied to drawn inputs
    ml,        \* the MLIntegration object (mlIntegration.js)
    net,       \* advisory requests in flight (fetch promises not yet settled)
    now,       \* Date.now(), in minutes
    due,       \* what the rep handler still has to run for the last rep
    sent,      \* advisory requests made in this session
    sh,        \* the shoulder exercise module (shoulderExercise.js)
    shNet,     \* predictQuality requests of the shoulder module in flight
    sq,        \* the squat exercise module (kneeExercise.js)
    sqCall,    \* the caller of the squat module: the arguments it passes, the
               \* knee angles it has fed, what endSquatSession returned to it
    solo,      \* per user, the squat module as it would be had only that
               \* user's calls been made
    twin       \* a second ExerciseManager that is fed the frames em is fed, and
               \* the Date.now() readings of the rep records of both

vars == <<em, rest, frames, resets, fn, ml, net, now, due, sent, sh, shNet, sq, sqCall, solo, twin>>

emVars == <<em, rest, frames, resets>>

adaptVars == <<ml, net, now, due, sent>>

sqVars == <<sq, sqCall, solo>>

shVars == <<sh, shNet, sqVars, twin>>

(***************************************************************************)
(* Bounds of the exploration                                               *)
(***************************************************************************)
\* frames fed to one manager in the frame-level specification
MaxFrames == 9

\* reset() / changeExercise() calls
MaxResets == 1

\* training reps attempted in a session of the session-level specification
MaxReps == 6

\* advisory requests made in one session
MaxAdvisories == 1

\* frames fed to the shoulder exercise module
MaxShFrames == 8

\* minutes on the session clock; the session starts at minute 1
ClockReadings == {1, 12, 17}

(***************************************************************************)
(* Arithmetic helpers                                                      *)
(***************************************************************************)
Deg(d) == 2 * d

Abs(x) == IF x < 0 THEN 0 - x ELSE x

\* Math.round on a half-degree value: floor(x + 0.5), result in half degrees
MathRound(v) == 2 * ((v + 1) \div 2)

\* Values x (half degrees, 0..300 degrees) where the double product x * 0.7
\* falls just below an exact .5 tie (45, 85, 165, 175 degrees):
\* 45 * 0.7 = 31.499999999999996 in IEEE doubles, so Math.round gives 31.
Float07Low == {90, 170, 330, 350}

\* Math.round(x * 1.3): no double product in 0..400 degrees misses its tie
RoundMul13(v) == 2 * ((13 * v + 10) \div 20)

\* Math.round(x * 0.7)
RoundMul07(v) == 2 * (((7 * v + 10) \div 20) - (IF v \in Float07Low THEN 1 ELSE 0))

RECURSIVE SeqMin(_)
SeqMin(s) == IF Len(s) = 1 THEN s[1]
             ELSE LET m == SeqMin(Tail(s)) IN IF s[1] < m THEN s[1] ELSE m

RECURSIVE SeqMax(_)
SeqMax(s) == IF Len(s) = 1 THEN s[1]
             ELSE LET m == SeqMax(Tail(s)) IN IF s[1] > m THEN s[1] ELSE m

RECURSIVE SeqSum(_)
SeqSum(s) == IF s = <<>> THEN 0 ELSE s[1] + SeqSum(Tail(s))

\* Array.prototype.slice(-n)
SliceLast(s, n) == IF Len(s) <= n THEN s ELSE SubSeq(s, Len(s) - n + 1, Len(s))

\* Array.prototype.slice(0, n)
SliceFirst(s, n) == IF Len(s) <= n THEN s ELSE SubSeq(s, 1, n)

(***************************************************************************)
(* ExerciseManager (exerciseLogic.js)                                      *)
(***************************************************************************)
\* null of personalTarget / minimumThreshold / userBaseline before calibration
Null == -100000

BASELINE_REP_COUNT == 3

\* sessionAngles.slice(-30): the window the extremum is taken over
WindowLen == 30

Exercises == {"squat", "hip", "shoulder"}

\* constructor()
NewManager ==
    [ currentExercise |-> "squat",
      repCount |-> 0,
      currentState |-> "STANDING",
      sessionAngles |-> <<>>,
      sessionReps |-> <<>>,
      personalTarget |-> Null,
      minimumThreshold |-> Null,
      userBaseline |-> Null,
      currentPhase |-> "BASELINE",
      baselineReps |-> <<>>,
      currentRepAngleSequence |-> <<>> ]

\* The first statements of every check*: push the sample, and capture the
\* feature row (18 copies of the angle, kept as the angle) while not standing.
PushSample(m, angle) ==
    [m EXCEPT !.sessionAngles = Append(@, angle),
              !.currentRepAngleSequence =
                  IF m.currentState # "STANDING" THEN Append(@, angle) ELSE @]

\* RecordRepLower without the THRESHOLD_MET latch
RecordRepLower_NoLatch(m) ==
    LET achieved == SeqMin(SliceLast(m.sessionAngles, WindowLen))
        repData == [ angle |-> achieved,
                     minimumThreshold |-> m.minimumThreshold,
                     pushTarget |-> m.personalTarget,
                     reachedPushTarget |-> (achieved <= m.personalTarget),
                     baseline |-> m.userBaseline ]
    IN [m EXCEPT !.userBaseline = IF achieved < @ THEN achieved ELSE @,
                 !.sessionReps = Append(@, repData),
                 !.repCount = @ + 1]

\* The rep record and its effects (THRESHOLD_MET branch), lower is harder
RecordRepLower(m) ==
    LET achieved == SeqMin(SliceLast(m.sessionAngles, WindowLen))
        repData == [ angle |-> achieved,
                     minimumThreshold |-> m.minimumThreshold,
                     pushTarget |-> m.personalTarget,
                     reachedPushTarget |-> (achieved <= m.personalTarget),
                     baseline |-> m.userBaseline ]
    IN [m EXCEPT !.currentState = "THRESHOLD_MET",
                 !.userBaseline = IF achieved < @ THEN achieved ELSE @,
                 !.sessionReps = Append(@, repData),
                 !.repCount = @ + 1]

\* RecordRepHigher counting the rep without storing its record
RecordRepHigher_NoRecord(m) ==
    [m EXCEPT !.currentState = "THRESHOLD_MET",
              !.repCount = @ + 1]

\* The rep record and its effects (THRESHOLD_MET branch), higher is harder
RecordRepHigher(m) ==
    LET achieved == SeqMax(SliceLast(m.sessionAngles, WindowLen))
        repData == [ angle |-> achieved,
                     minimumThreshold |-> m.minimumThreshold,
                     pushTarget |-> m.personalTarget,
                     reachedPushTarget |-> (achieved >= m.personalTarget),
                     baseline |-> m.userBaseline ]
    IN [m EXCEPT !.currentState = "THRESHOLD_MET",
                 !.userBaseline = IF achieved > @ THEN achieved ELSE @,
                 !.sessionReps = Append(@, repData),
                 !.repCount = @ + 1]

\* checkSquat(kneeAngle): the manager after the call
checkSquat(m0, kneeAngle) ==
    LET m == PushSample(m0, kneeAngle) IN
    IF m.currentPhase = "BASELINE" THEN
        IF m.currentState = "STANDING" /\ kneeAngle < Deg(160)
        THEN [m EXCEPT !.currentState = "DESCENDING"]
        ELSE IF m.currentState = "DESCENDING" /\ kneeAngle > Deg(160)
        THEN [m EXCEPT !.currentState = "STANDING",
                       !.baselineReps =
                           Append(@, SeqMin(SliceLast(m.sessionAngles, WindowLen)))]
        ELSE m
    ELSE IF m.currentState = "STANDING" /\ kneeAngle < Deg(160)
    THEN [m EXCEPT !.currentState = "DESCENDING"]
    ELSE IF m.currentState = "DESCENDING" /\ kneeAngle <= m.minimumThreshold
    THEN RecordRepLower(m)
    ELSE IF m.currentState \in {"THRESHOLD_MET", "DESCENDING"} /\ kneeAngle > Deg(160)
    THEN [m EXCEPT !.currentState = "STANDING", !.currentRepAngleSequence = <<>>]
    ELSE m

\* checkHipExercise(hipAngle): the manager after the call
checkHipExercise(m0, hipAngle) ==
    LET m == PushSample(m0, hipAngle) IN
    IF m.currentPhase = "BASELINE" THEN
        IF m.currentState = "STANDING" /\ hipAngle < Deg(150)
        THEN [m EXCEPT !.currentState = "LIFTING"]
        ELSE IF m.currentState = "LIFTING" /\ hipAngle > Deg(170)
        THEN [m EXCEPT !.currentState = "STANDING",
                       !.baselineReps =
                           Append(@, SeqMin(SliceLast(m.sessionAngles, WindowLen)))]
        ELSE m
    ELSE IF m.currentState = "STANDING" /\ hipAngle < Deg(150)
    THEN [m EXCEPT !.currentState = "LIFTING"]
    ELSE IF m.currentState = "LIFTING" /\ hipAngle <= m.minimumThreshold
    THEN RecordRepLower(m)
    ELSE IF m.currentState \in {"THRESHOLD_MET", "LIFTING"} /\ hipAngle > Deg(170)
    THEN [m EXCEPT !.currentState = "STANDING", !.currentRepAngleSequence = <<>>]
    ELSE m

\* checkShoulderExercise(shoulderAngle): the manager after the call
checkShoulderExercise(m0, shoulderAngle) ==
    LET m == PushSample(m0, shoulderAngle) IN
    IF m.currentPhase = "BASELINE" THEN
        IF m.currentState = "STANDING" /\ shoulderAngle > Deg(30)
        THEN [m EXCEPT !.currentState = "RAISING", !.currentRepAngleSequence = <<>>]
        ELSE IF m.currentState = "RAISING" /\ shoulderAngle < Deg(30)
        THEN [m EXCEPT !.currentState = "STANDING",
                       !.baselineReps =
                           Append(@, SeqMax(SliceLast(m.sessionAngles, WindowLen)))]
        ELSE m
    ELSE IF m.currentState = "STANDING" /\ shoulderAngle > Deg(30)
    THEN [m EXCEPT !.currentState = "RAISING", !.currentRepAngleSequence = <<>>]
    ELSE IF m.currentState = "RAISING" /\ shoulderAngle >= m.minimumThreshold
    THEN RecordRepHigher(m)
    ELSE IF m.currentState \in {"THRESHOLD_MET", "RAISING"} /\ shoulderAngle < Deg(30)
    THEN [m EXCEPT !.currentState = "STANDING", !.currentRepAngleSequence = <<>>]
    ELSE m

\* The per-frame dispatch on the active exercise
checkFrame(m, angle) ==
    IF m.currentExercise = "squat" THEN checkSquat(m, angle)
    ELSE IF m.currentExercise = "hip" THEN checkHipExercise(m, angle)
    ELSE checkShoulderExercise(m, angle)

\* establishBaseline taking the push target without Math.round
establishBaseline_NoRound(m) ==
    IF Len(m.baselineReps) < BASELINE_REP_COUNT THEN m
    ELSE IF m.currentExercise = "shoulder"
    THEN LET b == SeqMax(m.baselineReps) IN
         [m EXCEPT !.userBaseline = b,
                   !.minimumThreshold = RoundMul07(b),
                   !.personalTarget = b + Deg(10),
                   !.currentPhase = "TRAINING"]
    ELSE LET b == SeqMin(m.baselineReps) IN
         [m EXCEPT !.userBaseline = b,
                   !.minimumThreshold = RoundMul13(b),
                   !.personalTarget = b - Deg(10),
                   !.currentPhase = "TRAINING"]

\* establishBaseline(): the manager after the call
establishBaseline(m) ==
    IF Len(m.baselineReps) < BASELINE_REP_COUNT THEN m
    ELSE IF m.currentExercise = "shoulder"
    THEN LET b == SeqMax(m.baselineReps) IN
         [m EXCEPT !.userBaseline = b,
                   !.minimumThreshold = RoundMul07(b),
                   !.personalTarget = MathRound(b + Deg(10)),
                   !.currentPhase = "TRAINING"]
    ELSE LET b == SeqMin(m.baselineReps) IN
         [m EXCEPT !.userBaseline = b,
                   !.minimumThreshold = RoundMul13(b),
                   !.personalTarget = MathRound(b - Deg(10)),
                   !.currentPhase = "TRAINING"]

\* reset() leaving the calibration buffer as it is
reset_KeepBaselineReps(m) ==
    [m EXCEPT !.repCount = 0,
              !.currentState = "STANDING",
              !.sessionAngles = <<>>,
              !.sessionReps = <<>>,
              !.currentPhase = "BASELINE",
              !.userBaseline = 0,
              !.currentRepAngleSequence = <<>>]

\* reset()
reset(m) ==
    [m EXCEPT !.repCount = 0,
              !.currentState = "STANDING",
              !.sessionAngles = <<>>,
              !.sessionReps = <<>>,
              !.currentPhase = "BASELINE",
              !.baselineReps = <<>>,
              !.userBaseline = 0,
              !.currentRepAngleSequence = <<>>]

\* changeExercise(exercise)
changeExercise(m, exercise) == reset([m EXCEPT !.currentExercise = exercise])

\* setPersonalTarget(target)
setPersonalTarget(m, target) == [m EXCEPT !.personalTarget = target]

\* setMinimumThreshold(threshold)
setMinimumThreshold(m, threshold) == [m EXCEPT !.minimumThreshold = threshold]

\* updateTargets with the two multipliers exchanged
updateTargets_Swapped(m, newPushTarget) ==
    IF m.currentExercise = "shoulder"
    THEN [m EXCEPT !.personalTarget = newPushTarget,
                   !.minimumThreshold = RoundMul13(newPushTarget)]
    ELSE [m EXCEPT !.personalTarget = newPushTarget,
                   !.minimumThreshold = RoundMul07(newPushTarget)]

\* updateTargets(newPushTarget)
updateTargets(m, newPushTarget) ==
    IF m.currentExercise = "shoulder"
    THEN [m EXCEPT !.personalTarget = newPushTarget,
                   !.minimumThreshold = RoundMul07(newPushTarget)]
    ELSE [m EXCEPT !.personalTarget = newPushTarget,
                   !.minimumThreshold = RoundMul13(newPushTarget)]

\* Is the machine in its rest state?
AtRest(m) == m.currentState = "STANDING"

(***************************************************************************)
(* MLIntegration (mlIntegration.js): target adaptation                     *)
(***************************************************************************)
Max2(a, b) == IF a > b THEN a ELSE b

Min2(a, b) == IF a < b THEN a ELSE b

\* history.map(r => r.angle || 0)
AnglesOf(history) == [i \in 1..Len(history) |-> history[i].angle]

RECURSIVE SeqSumSq(_)
SeqSumSq(s) == IF s = <<>> THEN 0 ELSE s[1] * s[1] + SeqSumSq(Tail(s))

\* n * n * variance of a list of angles (half degrees squared)
ScaledVariance(angles) ==
    Len(angles) * SeqSumSq(angles) - SeqSum(angles) * SeqSum(angles)

\* Factor 3 from getConsistency(userHistory) = 1 - stdDev / 30 over the last
\* five angles: < 0.5 is stdDev > 15, < 0.7 is stdDev > 9, > 0.85 is
\* stdDev < 4.5 degrees (compared exactly, as squares)
ConsistencyFactor(history) ==
    LET angles == AnglesOf(SliceLast(history, 5))
        n == Len(angles)
        v == ScaledVariance(angles)
    IN IF Len(history) < 3 THEN 1
       ELSE IF v > 900 * n * n THEN 2
       ELSE IF v > 324 * n * n THEN 1
       ELSE IF v < 81 * n * n THEN -1
       ELSE 0

\* Factor 1: mean of the last ten angles against the baseline
RomFactor(baseline, history, isShoulderExercise) ==
    LET recent == AnglesOf(SliceLast(history, 10))
        n == Len(recent)
        \* n * romDecline
        decline == IF isShoulderExercise THEN n * baseline - SeqSum(recent)
                   ELSE SeqSum(recent) - n * baseline
    IN IF decline > n * Deg(10) THEN 3
       ELSE IF decline > n * Deg(5) THEN 2
       ELSE IF decline < 0 - n * Deg(10) THEN -2
       ELSE IF decline < 0 - n * Deg(5) THEN -1
       ELSE 0

\* Factor 2: first three against last three reps, from six reps on
FatigueFactor(history, isShoulderExercise) ==
    IF Len(history) < 6 THEN 0
    ELSE LET first3 == SeqSum(AnglesOf(SliceFirst(history, 3)))
             last3 == SeqSum(AnglesOf(SliceLast(history, 3)))
             drop == IF isShoulderExercise THEN first3 - last3 ELSE last3 - first3
         IN IF first3 = 0 THEN (IF drop > 0 THEN 4 ELSE 0)
            ELSE IF 100 * drop > 15 * first3 THEN 4
            ELSE IF 100 * drop > 10 * first3 THEN 3
            ELSE IF 100 * drop > 5 * first3 THEN 1
            ELSE 0

\* Factor 4: last five against the previous five reps, from ten reps on
TrendFactor(history, isShoulderExercise) ==
    IF Len(history) < 10 THEN 0
    ELSE LET recent5 == SeqSum(AnglesOf(SliceLast(history, 5)))
             previous5 == SeqSum(AnglesOf(SliceFirst(SliceLast(history, 10), 5)))
             \* 5 * trendImprovement
             improvement == IF isShoulderExercise THEN recent5 - previous5
                            ELSE previous5 - recent5
         IN IF improvement < 0 - 5 * Deg(5) THEN 2
            ELSE IF improvement > 5 * Deg(5) THEN -1
            ELSE 0

\* Factor 5: minutes since sessionStartTime (0 when it is not set)
DurationFactor(sessionStartTime, dateNow) ==
    IF sessionStartTime = Null \/ sessionStartTime = 0 THEN 0
    ELSE IF dateNow - sessionStartTime > 15 THEN 2
    ELSE IF dateNow - sessionStartTime > 10 THEN 1
    ELSE 0

\* The step table replaced by the total itself, cut off at -3 and 5
StepTable_Clamped(totalAdjustment) ==
    IF totalAdjustment >= 5 THEN 5
    ELSE IF totalAdjustment <= -3 THEN -3
    ELSE totalAdjustment

\* The step table from the factor total to the adjustment in degrees
StepTable(totalAdjustment) ==
    IF totalAdjustment >= 5 THEN 5
    ELSE IF totalAdjustment >= 3 THEN 3
    ELSE IF totalAdjustment >= 1 THEN 1
    ELSE IF totalAdjustment <= -4 THEN -3
    ELSE IF totalAdjustment <= -2 THEN -2
    ELSE IF totalAdjustment <= -1 THEN -1
    ELSE 0

\* Safety bounds: Math.round(Math.max(minTarget, Math.min(maxTarget, newTarget)))
SafetyBounds(baseline, newTarget, isShoulderExercise) ==
    LET minTarget == IF isShoulderExercise THEN baseline - Deg(10) ELSE baseline + Deg(10)
        maxTarget == IF isShoulderExercise THEN baseline + Deg(30) ELSE baseline - Deg(30)
    IN MathRound(Max2(minTarget, Min2(maxTarget, newTarget)))

\* newMinimum: null when the adjustment is 0, else the proportional value of
\* the CURRENT target moved by Math.round(adjustment * 0.5) degrees
NewMinimum(currentTarget, adjustment, isShoulderExercise) ==
    IF adjustment = 0 THEN Null
    ELSE LET minimumAdjustment == (adjustment + 1) \div 2
         IN IF isShoulderExercise
            THEN RoundMul07(currentTarget) - Deg(minimumAdjustment)
            ELSE RoundMul13(currentTarget) + Deg(minimumAdjustment)

\* calculateComprehensiveTarget taking two reps for enough data
calculateComprehensiveTarget_FromTwo(sessionStartTime, dateNow, currentTarget, baseline, userHistory, currentExercise) ==
    IF Len(userHistory) < 2
    THEN [ newTarget |-> currentTarget, newMinimum |-> Null, adjustment |-> 0,
           factors |-> [rom |-> 0, fatigue |-> 0, consistency |-> 0,
                        trend |-> 0, duration |-> 0, total |-> Null] ]
    ELSE LET isShoulderExercise == currentExercise = "shoulder"
             romFactor == RomFactor(baseline, userHistory, isShoulderExercise)
             fatigueFactor == FatigueFactor(userHistory, isShoulderExercise)
             consistencyFactor == ConsistencyFactor(userHistory)
             trendFactor == TrendFactor(userHistory, isShoulderExercise)
             durationFactor == DurationFactor(sessionStartTime, dateNow)
             totalAdjustment == romFactor + fatigueFactor + consistencyFactor
                                  + trendFactor + durationFactor
             adjustment == StepTable(totalAdjustment)
             newTarget == IF isShoulderExercise
                          THEN currentTarget - Deg(adjustment)
                          ELSE currentTarget + Deg(adjustment)
         IN [ newTarget |-> SafetyBounds(baseline, newTarget, isShoulderExercise),
              newMinimum |-> NewMinimum(currentTarget, adjustment, isShoulderExercise),
              adjustment |-> adjustment,
              factors |-> [rom |-> romFactor, fatigue |-> fatigueFactor,
                           consistency |-> consistencyFactor, trend |-> trendFactor,
                           duration |-> durationFactor, total |-> totalAdjustment] ]

\* calculateComprehensiveTarget(currentTarget, baseline, userHistory,
\* currentExercise), with this.sessionStartTime and Date.now() (minutes)
calculateComprehensiveTarget(sessionStartTime, dateNow, currentTarget, baseline, userHistory, currentExercise) ==
    IF Len(userHistory) < 3
    THEN [ newTarget |-> currentTarget, newMinimum |-> Null, adjustment |-> 0,
           factors |-> [rom |-> 0, fatigue |-> 0, consistency |-> 0,
                        trend |-> 0, duration |-> 0, total |-> Null] ]
    ELSE LET isShoulderExercise == currentExercise = "shoulder"
             romFactor == RomFactor(baseline, userHistory, isShoulderExercise)
             fatigueFactor == FatigueFactor(userHistory, isShoulderExercise)
             consistencyFactor == ConsistencyFactor(userHistory)
             trendFactor == TrendFactor(userHistory, isShoulderExercise)
             durationFactor == DurationFactor(sessionStartTime, dateNow)
             totalAdjustment == romFactor + fatigueFactor + consistencyFactor
                                  + trendFactor + durationFactor
             adjustment == StepTable(totalAdjustment)
             newTarget == IF isShoulderExercise
                          THEN currentTarget - Deg(adjustment)
                          ELSE currentTarget + Deg(adjustment)
         IN [ newTarget |-> SafetyBounds(baseline, newTarget, isShoulderExercise),
              newMinimum |-> NewMinimum(currentTarget, adjustment, isShoulderExercise),
              adjustment |-> adjustment,
              factors |-> [rom |-> romFactor, fatigue |-> fatigueFactor,
                           consistency |-> consistencyFactor, trend |-> trendFactor,
                           duration |-> durationFactor, total |-> totalAdjustment] ]

\* A userHistory argument: an array of reps, or null / undefined
HistoryGiven(reps) == [given |-> TRUE, reps |-> reps]

HistoryMissing == [given |-> FALSE]

\* calculateComprehensiveTarget from its entry: '!userHistory' returns the
\* insufficient-data result before the array is looked at
calculateComprehensiveTargetCall(sessionStartTime, dateNow, currentTarget, baseline, userHistory, currentExercise) ==
    IF ~userHistory.given
    THEN [ newTarget |-> currentTarget, newMinimum |-> Null, adjustment |-> 0,
           factors |-> [rom |-> 0, fatigue |-> 0, consistency |-> 0,
                        trend |-> 0, duration |-> 0, total |-> Null] ]
    ELSE calculateComprehensiveTarget(sessionStartTime, dateNow, currentTarget,
                                      baseline, userHistory.reps, currentExercise)

(***************************************************************************)
(* MLIntegration (mlIntegration.js): the two advisories                    *)
(***************************************************************************)
\* constructor()
NewIntegration ==
    [sessionStartTime |-> Null, lstmAdjustmentCount |-> 0, rlAdjustmentCount |-> 0]

\* the variables of the adaptation layer before any session uses them
AdaptOff ==
    /\ ml = NewIntegration
    /\ net = <<>>
    /\ now = 1
    /\ due = [tick |-> FALSE, lstm |-> FALSE, rl |-> FALSE]
    /\ sent = 0

\* What a settled fetch can be: a rejected promise, a non-OK status, a body
\* that is not the expected JSON, or a well-formed body
FailedResponses == {[kind |-> "networkError"], [kind |-> "notOk"], [kind |-> "malformed"]}

\* predictLSTMQuality accepting a suggestion up to 10 degrees away
predictLSTMQuality_Wide(m, targetAngle, response) ==
    IF response.kind # "ok" THEN [isNull |-> TRUE, newTarget |-> Null, ml |-> m]
    ELSE IF response.personalized_target_angle = 0
    THEN [isNull |-> FALSE, newTarget |-> targetAngle, ml |-> m]
    ELSE LET lstmSuggestion == MathRound(response.personalized_target_angle) IN
         IF Abs(lstmSuggestion - targetAngle) <= Deg(10)
         THEN [isNull |-> FALSE, newTarget |-> lstmSuggestion,
               ml |-> [m EXCEPT !.lstmAdjustmentCount = @ + 1]]
         ELSE [isNull |-> FALSE, newTarget |-> targetAngle, ml |-> m]

\* predictLSTMQuality(angleSequence, repData) once the fetch has settled:
\* null on failure, else newTarget (the rounded suggestion when it is within
\* 2 degrees of repData.targetAngle) and the adjustment counter
predictLSTMQuality(m, targetAngle, response) ==
    IF response.kind # "ok" THEN [isNull |-> TRUE, newTarget |-> Null, ml |-> m]
    ELSE IF response.personalized_target_angle = 0
    THEN [isNull |-> FALSE, newTarget |-> targetAngle, ml |-> m]
    ELSE LET lstmSuggestion == MathRound(response.personalized_target_angle) IN
         IF Abs(lstmSuggestion - targetAngle) <= Deg(2)
         THEN [isNull |-> FALSE, newTarget |-> lstmSuggestion,
               ml |-> [m EXCEPT !.lstmAdjustmentCount = @ + 1]]
         ELSE [isNull |-> FALSE, newTarget |-> targetAngle, ml |-> m]

\* applyRLAdjustment with 'Rest recommended' (action 3) easing the target too
applyRLAdjustment_RestEases(m, currentTarget, response) ==
    IF response.kind # "ok"
    THEN [newTarget |-> currentTarget, action |-> -1, ml |-> m]
    ELSE LET newTarget == IF response.action \in {0, 3} THEN currentTarget + Deg(5)
                          ELSE IF response.action = 2 THEN currentTarget - Deg(5)
                          ELSE currentTarget
         IN [newTarget |-> newTarget, action |-> response.action,
             ml |-> IF newTarget # currentTarget
                    THEN [m EXCEPT !.rlAdjustmentCount = @ + 1] ELSE m]

\* applyRLAdjustment(repCount, userHistory, currentTarget) once the fetch has
\* settled (repCount is a multiple of 5): action 0 adds 5 degrees, action 2
\* subtracts 5, every other action and every failure keeps the target
applyRLAdjustment(m, currentTarget, response) ==
    IF response.kind # "ok"
    THEN [newTarget |-> currentTarget, action |-> -1, ml |-> m]
    ELSE LET newTarget == IF response.action = 0 THEN currentTarget + Deg(5)
                          ELSE IF response.action = 2 THEN currentTarget - Deg(5)
                          ELSE currentTarget
         IN [newTarget |-> newTarget, action |-> response.action,
             ml |-> IF newTarget # currentTarget
                    THEN [m EXCEPT !.rlAdjustmentCount = @ + 1] ELSE m]

\* An exact fraction num / den
Ratio(num, den) == [num |-> num, den |-> den]

\* getConsistency(history): 0.5 under three reps, else 1 - stdDev / 30 of the
\* last five angles, clamped to [0, 1]; stdDev / 30 is the square root of
\* variance / 900, kept exact as the fraction under the root
getConsistency(history) ==
    IF Len(history) < 3 THEN [value |-> Ratio(1, 2)]
    ELSE LET angles == AnglesOf(SliceLast(history, 5))
             n == Len(angles)
             v == ScaledVariance(angles)
         IN IF v > 3600 * n * n THEN [value |-> Ratio(0, 1)]
            ELSE [oneMinusRootOf |-> Ratio(v, 3600 * n * n)]

\* getFatigue(history): 0 under five reps, else the gap between the mean
\* angles of the two halves over max(earlierAvg, recentAvg, 1 degree)
getFatigue(history) ==
    IF Len(history) < 5 THEN Ratio(0, 1)
    ELSE LET halfPoint == Len(history) \div 2
             recent == SeqSum(AnglesOf(SubSeq(history, halfPoint + 1, Len(history))))
             earlier == SeqSum(AnglesOf(SubSeq(history, 1, halfPoint)))
             r == Len(history) - halfPoint
             e == halfPoint
         IN Ratio(Abs(earlier * r - recent * e),
                  Max2(Max2(earlier * r, recent * e), 2 * e * r))

\* getSuccessRate(history): 0.5 for no reps, else the share of reps whose
\* quality is 'good' or 'perfect'
getSuccessRate(history) ==
    IF Len(history) = 0 THEN Ratio(1, 2)
    ELSE Ratio(Cardinality({i \in 1..Len(history) :
                               history[i].quality \in {"good", "perfect"}}),
               Len(history))

\* paddedHistory with the padding left out
paddedHistory_NoPad(userHistory, currentTarget) == userHistory

\* paddedHistory: neutral entries at currentTarget are put in front until the
\* history has ten entries
paddedHistory(userHistory, currentTarget) ==
    IF Len(userHistory) >= 10 THEN userHistory
    ELSE [i \in 1..(10 - Len(userHistory)) |->
              [angle |-> currentTarget, quality |-> "neutral"]] \o userHistory

\* r.angle || currentTarget
AngleOr(r, currentTarget) == IF r.angle = 0 THEN currentTarget ELSE r.angle

\* The state applyRLAdjustment posts to /predict
rlState(m, dateNow, repCount, userHistory, currentTarget) ==
    LET padded == paddedHistory(userHistory, currentTarget)
        last10 == SliceLast(padded, 10)
        last10Angles == [i \in 1..Len(last10) |-> AngleOr(last10[i], currentTarget)]
        consistency == getConsistency(padded)
        fatigue == getFatigue(padded)
        sessionTimeNorm == IF m.sessionStartTime \in {Null, 0} THEN Ratio(0, 1)
                           ELSE Ratio(Min2(dateNow - m.sessionStartTime, 1), 1)
        baseline == IF padded = <<>> THEN currentTarget
                    ELSE AngleOr(padded[1], currentTarget)
        repsNorm == Ratio(Min2(repCount, 99), 100)
        successRate == getSuccessRate(padded)
    IN last10Angles \o <<consistency, fatigue, sessionTimeNorm, currentTarget,
                         baseline, repsNorm, successRate, 0, 0, 0>>

\* No request was made
NoRequest == <<>>

\* applyRLAdjustment(repCount, userHistory, currentTarget) from its entry: no
\* request unless repCount is a multiple of 5, else the state is posted and
\* the settled response decides
applyRLAdjustmentCall(m, dateNow, repCount, userHistory, currentTarget, response) ==
    IF repCount % 5 # 0
    THEN [newTarget |-> currentTarget, posted |-> NoRequest, action |-> Null, ml |-> m]
    ELSE LET settled == applyRLAdjustment(m, currentTarget, response)
         IN [newTarget |-> settled.newTarget,
             posted |-> rlState(m, dateNow, repCount, userHistory, currentTarget),
             action |-> settled.action, ml |-> settled.ml]

\* MLIntegration.reset()
resetIntegration(m) == [m EXCEPT !.lstmAdjustmentCount = 0, !.rlAdjustmentCount = 0]

(***************************************************************************)
(* The shoulder exercise module (exercises/shoulderExercise.js) and its    *)
(* quality client (utils/lstmClient.js)                                    *)
(***************************************************************************)
\* shoulderExerciseConfig.targets
downAngle == Deg(30)
raisingThreshold == Deg(50)
standardTarget == Deg(90)

\* the module's variables at load, with shoulderExerciseConfig.targets.
\* targetShoulderAngle (the only field of the configuration that is written)
NewShoulder ==
    [ currentState |-> "DOWN", repCount |-> 0, lastShoulderAngle |-> Deg(30),
      sessionReps |-> <<>>, repStartTime |-> Null, repMinAngle |-> 0,
      repMaxAngle |-> 0, currentRepAngleSequence |-> <<>>,
      lstmEnabled |-> FALSE, personalizedTargetAngle |-> Deg(90),
      targetShoulderAngle |-> Deg(90) ]

\* Math.round((repMinAngle + repMaxAngle) / 2): the sum of two half-degree
\* counts is a count of quarter degrees
RoundAvg(a, b) == 2 * ((a + b + 2) \div 4)

\* shoulderExerciseConfig.transitions[state][transitionType], Null if absent
ShoulderTransition(state, transitionType) ==
    IF state = "DOWN" /\ transitionType = "raising" THEN "RAISING"
    ELSE IF state = "RAISING" /\ transitionType = "targetReached" THEN "TARGET_REACHED"
    ELSE IF state = "RAISING" /\ transitionType = "lowering" THEN "DOWN"
    ELSE IF state = "TARGET_REACHED" /\ transitionType = "lowering" THEN "LOWERING"
    ELSE IF state = "LOWERING" /\ transitionType = "completed" THEN "COMPLETED"
    ELSE IF state = "COMPLETED" /\ transitionType = "raising" THEN "RAISING"
    ELSE "none"

\* checkShoulderExercise(landmarks, ..., userId, userHistory = null,
\* targetAngle) for visible landmarks whose shoulder angle is shoulderAngle:
\* the module after the call, and whether predictQuality was called
shoulderFrame(s, shoulderAngle, userId, targetAngle, dateNow) ==
    LET adaptiveTarget == IF targetAngle # Null /\ targetAngle # 0
                          THEN targetAngle ELSE standardTarget
        tracked == s.currentState # "DOWN"
        minAngle == IF tracked
                    THEN Min2(IF s.repMinAngle = 0 THEN shoulderAngle
                              ELSE s.repMinAngle, shoulderAngle)
                    ELSE s.repMinAngle
        maxAngle == IF tracked THEN Max2(s.repMaxAngle, shoulderAngle)
                    ELSE s.repMaxAngle
        sequence == IF tracked THEN Append(s.currentRepAngleSequence, shoulderAngle)
                    ELSE s.currentRepAngleSequence
        isRaising == shoulderAngle > s.lastShoulderAngle
        isLowering == shoulderAngle < s.lastShoulderAngle
        transitionType ==
            IF s.currentState = "DOWN" /\ isRaising /\ shoulderAngle > raisingThreshold
            THEN "raising"
            ELSE IF s.currentState = "RAISING"
            THEN (IF shoulderAngle >= adaptiveTarget THEN "targetReached"
                  ELSE IF isLowering THEN "lowering" ELSE "none")
            ELSE IF s.currentState = "TARGET_REACHED" /\ isLowering THEN "lowering"
            ELSE IF s.currentState = "LOWERING" /\ shoulderAngle <= downAngle
            THEN "completed"
            ELSE "none"
        target == ShoulderTransition(s.currentState, transitionType)
        moved == transitionType # "none" /\ target # "none"
        countRep == moved /\ target = "COMPLETED"
        repData == [ min |-> MathRound(minAngle), max |-> MathRound(maxAngle),
                     avg |-> RoundAvg(minAngle, maxAngle),
                     success |-> maxAngle >= adaptiveTarget,
                     targetAngle |-> adaptiveTarget,
                     personalizedTarget |-> s.personalizedTargetAngle,
                     lstm_quality_score |-> Null, lstm_target |-> Null ]
    IN [ request |-> countRep /\ s.lstmEnabled /\ userId # Null /\ Len(sequence) > 5,
         sh |-> [s EXCEPT
             !.targetShoulderAngle = adaptiveTarget,
             !.currentState = IF moved THEN target ELSE @,
             !.repCount = IF countRep THEN @ + 1 ELSE @,
             !.sessionReps = IF countRep /\ userId # Null THEN Append(@, repData) ELSE @,
             !.repMinAngle = IF countRep THEN 0 ELSE minAngle,
             !.repMaxAngle = IF countRep THEN 0 ELSE maxAngle,
             !.currentRepAngleSequence = IF countRep THEN <<>> ELSE sequence,
             !.repStartTime = IF moved /\ s.currentState = "DOWN" /\ target = "RAISING"
                              THEN dateNow
                              ELSE IF countRep THEN Null ELSE @,
             !.lastShoulderAngle = shoulderAngle] ]

\* resetShoulderExercise()
resetShoulderExercise(s) ==
    [s EXCEPT !.currentState = "DOWN", !.repCount = 0,
              !.lastShoulderAngle = Deg(30), !.sessionReps = <<>>,
              !.repStartTime = Null, !.repMinAngle = 0, !.repMaxAngle = 0,
              !.currentRepAngleSequence = <<>>,
              !.personalizedTargetAngle = Deg(90)]

\* predictQuality(userId, angleSequence) once the fetch has settled: the body
\* of a good response, else the fallback values (quality_score in percent)
predictQuality(response) ==
    IF response.kind = "ok"
    THEN [quality_score |-> response.quality_score,
          personalized_target_angle |-> response.personalized_target_angle,
          error |-> FALSE]
    ELSE [quality_score |-> 50, personalized_target_angle |-> Deg(90), error |-> TRUE]

\* the .then callback of checkShoulderExercise on predictQuality's result
thenPredictQuality(s, result) ==
    [s EXCEPT
        !.personalizedTargetAngle = result.personalized_target_angle,
        !.targetShoulderAngle = result.personalized_target_angle,
        !.sessionReps =
            IF Len(@) > 0
            THEN [@ EXCEPT ![Len(@)] =
                     [@ EXCEPT !.lstm_quality_score = result.quality_score,
                               !.lstm_target = result.personalized_target_angle]]
            ELSE @]

(***************************************************************************)
(* exercises/kneeExercise.js: the squat module, with the documented        *)
(* utils/adaptiveLearning.js functions it calls (README.md)                *)
(***************************************************************************)
\* the JavaScript value undefined where a number is read, and where an object
\* is read
Undefined == -200000
UndefinedObject == [undefined |-> TRUE]

\* record.field as JavaScript reads it: undefined for a missing property
GetNumber(record, field) == IF field \in DOMAIN record THEN record[field] ELSE Undefined
GetObject(record, field) == IF field \in DOMAIN record THEN record[field] ELSE UndefinedObject

\* a < b and a <= b on numbers either of which may be undefined (NaN compares
\* false)
Less(a, b) == a # Undefined /\ b # Undefined /\ a < b
LessEq(a, b) == a # Undefined /\ b # Undefined /\ a <= b

\* a userHistory argument of null
NullHistory == [null |-> TRUE]

\* adaptiveConfig
initialAssessmentSessions == 3
progressionThreshold == Deg(5)
regressionThreshold == Deg(8)
adaptationRate == Deg(3)
maxTargetChangePerSession == Deg(8)

\* sessions.flatMap(s => s.reps.map(r => r.angles.avg))
RECURSIVE FlatAngles(_)
FlatAngles(sessions) ==
    IF sessions = <<>> THEN <<>> ELSE Head(sessions).reps \o FlatAngles(Tail(sessions))

\* calculateBaseline(initialSessions, standardTarget), recommendedTarget only:
\* standardTarget * 1.2 while sessions are missing, else
\* Math.round(avgAngle - 5)
calculateBaseline(initialSessions, standard) ==
    IF Len(initialSessions) < initialAssessmentSessions
    THEN [status |-> "incomplete", recommendedTarget |-> (12 * standard) \div 10]
    ELSE LET allAngles == FlatAngles(initialSessions)
             n == Len(allAngles)
         IN [status |-> "complete",
             recommendedTarget |-> 2 * ((SeqSum(allAngles) - 9 * n) \div (2 * n))]

\* 1 - stdDev / avg >= minConsistencyScore (0.7), on the sum of squared
\* deviations scaled by n * n
IsConsistent(angles) ==
    LET n == Len(angles)
        total == SeqSum(angles)
    IN 100 * (n * SeqSumSq(angles) - total * total) <= 9 * total * total

\* calculatePersonalTarget(userId, exerciseName, userHistory, standardTarget):
\* the returned object's properties target and reason
calculatePersonalTarget(userHistory, standard) ==
    LET sessions == userHistory.sessions IN
    IF Len(sessions) < initialAssessmentSessions
    THEN [target |-> calculateBaseline(sessions, standard).recommendedTarget,
          reason |-> "Establishing baseline"]
    ELSE LET recentAngles == FlatAngles(SliceLast(sessions, 5))
             n == Len(recentAngles)
             total == SeqSum(recentAngles)
             currentTarget == IF userHistory.personalTarget \in {Null, 0}
                              THEN standard ELSE userHistory.personalTarget
             exceeding == total < n * (currentTarget - progressionThreshold)
             struggling == total > n * (currentTarget + regressionThreshold)
             adjustment == IF IsConsistent(recentAngles)
                           THEN (IF exceeding THEN 0 - adaptationRate
                                 ELSE IF struggling THEN adaptationRate ELSE 0)
                           ELSE (IF struggling THEN adaptationRate ELSE 0)
             rounded == MathRound(currentTarget + adjustment)
             paced == IF Abs(rounded - currentTarget) > maxTargetChangePerSession
                      THEN (IF adjustment > 0
                            THEN currentTarget + maxTargetChangePerSession
                            ELSE currentTarget - maxTargetChangePerSession)
                      ELSE rounded
             minTarget == (7 * standard) \div 10
             maxTarget == (13 * standard) \div 10
         IN [target |-> Max2(minTarget, Min2(maxTarget, paced)),
             reason |-> "adjusted"]

\* squatExerciseConfig.targets
thresholdKneeAngle == Deg(160)
standardKneeTarget == Deg(90)

\* the module-level lets and squatExerciseConfig.targets.targetKneeAngle
NewSquat ==
    [ currentState |-> "STANDING", repCount |-> 0, sessionReps |-> <<>>,
      repStartTime |-> Null, repMinAngle |-> Deg(180), repMaxAngle |-> 0,
      targetKneeAngle |-> Deg(90) ]

\* squatExerciseConfig.transitions with a descent that is given up ending in
\* FINISHED
SquatTransition_PartialCounts(state, transitionType) ==
    IF state = "STANDING" /\ transitionType = "descending" THEN "DESCENDING"
    ELSE IF state = "DESCENDING" /\ transitionType = "hitTarget" THEN "SQUATTING"
    ELSE IF state = "DESCENDING" /\ transitionType = "finishing" THEN "FINISHED"
    ELSE IF state = "SQUATTING" /\ transitionType = "finishing" THEN "FINISHED"
    ELSE IF state = "FINISHED" /\ transitionType = "descending" THEN "DESCENDING"
    ELSE "none"

\* squatExerciseConfig.transitions[state][transitionType], "none" if absent
SquatTransition(state, transitionType) ==
    IF state = "STANDING" /\ transitionType = "descending" THEN "DESCENDING"
    ELSE IF state = "DESCENDING" /\ transitionType = "hitTarget" THEN "SQUATTING"
    ELSE IF state = "DESCENDING" /\ transitionType = "finishing" THEN "STANDING"
    ELSE IF state = "SQUATTING" /\ transitionType = "finishing" THEN "FINISHED"
    ELSE IF state = "FINISHED" /\ transitionType = "descending" THEN "DESCENDING"
    ELSE "none"

\* checkSquat(landmarks, ..., userId, userHistory, targetKneeAngle) of
\* kneeExercise.js for visible landmarks whose smaller knee angle is kneeAngle:
\* the module after the call
squatFrame(s, kneeAngle, userId, userHistory, targetKneeAngle, dateNow) ==
    LET adaptiveTarget ==
            IF userId # Null /\ userHistory # NullHistory
            THEN GetNumber(calculatePersonalTarget(userHistory, standardKneeTarget),
                           "recommendedTarget")
            ELSE IF targetKneeAngle \in {Null, 0} THEN standardKneeTarget
            ELSE targetKneeAngle
        tracked == s.currentState # "STANDING"
        minAngle == IF tracked THEN Min2(s.repMinAngle, kneeAngle) ELSE s.repMinAngle
        maxAngle == IF tracked THEN Max2(s.repMaxAngle, kneeAngle) ELSE s.repMaxAngle
        transitionType ==
            IF Less(kneeAngle, adaptiveTarget) THEN "hitTarget"
            ELSE IF kneeAngle < thresholdKneeAngle THEN "descending"
            ELSE IF kneeAngle > thresholdKneeAngle THEN "finishing"
            ELSE "none"
        target == SquatTransition(s.currentState, transitionType)
        moved == transitionType # "none" /\ target # "none"
        countRep == moved /\ target = "FINISHED"
        repData == [ min |-> MathRound(minAngle), max |-> MathRound(maxAngle),
                     avg |-> RoundAvg(minAngle, maxAngle),
                     timestamp |-> dateNow,
                     success |-> LessEq(minAngle, adaptiveTarget),
                     targetAngle |-> adaptiveTarget ]
    IN [s EXCEPT
           !.targetKneeAngle = adaptiveTarget,
           !.currentState = IF moved THEN target ELSE @,
           !.repCount = IF countRep THEN @ + 1 ELSE @,
           !.sessionReps = IF countRep /\ userId # Null THEN Append(@, repData) ELSE @,
           !.repMinAngle = IF countRep THEN Deg(180) ELSE minAngle,
           !.repMaxAngle = IF countRep THEN 0 ELSE maxAngle,
           !.repStartTime = IF moved /\ s.currentState = "STANDING" /\ target = "DESCENDING"
                            THEN dateNow
                            ELSE IF countRep THEN Null ELSE @]

\* resetSquat()
resetSquat(s) ==
    [s EXCEPT !.currentState = "STANDING", !.repCount = 0, !.sessionReps = <<>>,
              !.repStartTime = Null, !.repMinAngle = Deg(180), !.repMaxAngle = 0]

\* trackSessionPerformance(userId, exerciseName, reps, sessionInfo) for at
\* least one rep: the properties of the session record it returns (of
\* sessionStats the rep count and the best and worst average angle)
trackSessionPerformance(userId, reps) ==
    LET angles == [i \in 1..Len(reps) |-> reps[i].avg]
    IN [ userId |-> userId, exerciseName |-> "Squat", reps |-> reps,
         sessionStats |-> [ totalReps |-> Len(reps),
                            bestAngle |-> MathRound(SeqMin(angles)),
                            worstAngle |-> MathRound(SeqMax(angles)) ],
         sessionInfo |-> [ targetReps |-> Len(reps) ] ]

\* what a call returns when it throws
ThrownTypeError == [thrown |-> "TypeError"]

\* getProgressionRecommendation(userId, exerciseName, userHistory): the
\* destructuring of userHistory throws a TypeError on undefined; below 10
\* sessions the recommendation is to continue
getProgressionRecommendation(userHistory) ==
    IF "undefined" \in DOMAIN userHistory \/ "null" \in DOMAIN userHistory
    THEN ThrownTypeError
    ELSE LET sessions == IF "sessions" \in DOMAIN userHistory
                         THEN userHistory.sessions ELSE <<>>
         IN IF Len(sessions) < 10
            THEN [type |-> "continue", sessionsToGo |-> 10 - Len(sessions)]
            ELSE [type |-> "progressing", sessionsToGo |-> 0]

\* endSquatSession(userId, ...): the module after the call and what the call
\* returned to its caller (of the rewards only their owner is kept)
endSquatSession(s, userId) ==
    IF userId = Null \/ s.sessionReps = <<>>
    THEN [sq |-> s, returned |-> [error |-> "No session data to save"]]
    ELSE LET sessionSummary == trackSessionPerformance(userId, s.sessionReps)
             recommendation ==
                 getProgressionRecommendation(GetObject(sessionSummary, "userHistory"))
         IN IF recommendation = ThrownTypeError
            THEN [sq |-> s, returned |-> ThrownTypeError]
            ELSE [sq |-> [s EXCEPT !.sessionReps = <<>>],
                  returned |-> [ sessionSummary |-> sessionSummary,
                                 recommendation |-> recommendation,
                                 rewards |-> [userId |-> userId] ]]

\* the caller before any call: no user, no history, no target override
NotCalled == [called |-> FALSE]
NoCaller ==
    [ userId |-> Null, userHistory |-> NullHistory, targetKneeAngle |-> Null,
      samples |-> <<>>, returned |-> NotCalled ]

\* the users that share the page, and the module each of them would have alone
SessionUsers == {1, 2}
NoSolo == [u \in SessionUsers |-> NewSquat]

\* no second manager
NoTwin == [machine |-> NewManager, stamps |-> <<>>, twinStamps |-> <<>>]

\* the modules before any frame; checkLSTMAvailability() is in flight
ShOff ==
    /\ sh = NewShoulder
    /\ shNet = <<[kind |-> "health"]>>
    /\ sq = NewSquat
    /\ sqCall = NoCaller
    /\ solo = NoSolo
    /\ twin = NoTwin

(***************************************************************************)
(* A training session: whole reps, the adaptation tick every 3 reps, the   *)
(* micro-advisory after a rep and the macro-advisory every 5 reps          *)
(***************************************************************************)
ADAPTATION_INTERVAL == 3
RL_INTERVAL == 5

\* the manager after the frames samples[i..] (each frame is evaluated before
\* the next one is fed)
RECURSIVE FeedFrom(_, _, _)
FeedFrom(m, samples, i) ==
    IF i > Len(samples) THEN m
    ELSE LET next == checkFrame(m, samples[i])
         IN IF next.repCount >= 0 THEN FeedFrom(next, samples, i + 1) ELSE next

\* the manager after a list of frames
Feed(m, samples) == FeedFrom(m, samples, 1)

\* a sample past the movement threshold but short of any depth
HoldSample(exercise) ==
    IF exercise = "squat" THEN Deg(150)
    ELSE IF exercise = "hip" THEN Deg(140)
    ELSE Deg(40)

\* a sample at rest
RestSample(exercise) ==
    IF exercise = "squat" THEN Deg(170)
    ELSE IF exercise = "hip" THEN Deg(175)
    ELSE Deg(20)

\* One slow rep: a window of shallow samples, the extremum, the return to rest
RepFrames(exercise, extremum) ==
    [i \in 1..WindowLen |-> HoldSample(exercise)] \o <<extremum, RestSample(exercise)>>

\* the extrema of the training reps of a session, per exercise: one short of
\* the baseline and one beyond it (a personal best)
RepExtrema(exercise) ==
    IF exercise = "squat" THEN {Deg(100), Deg(70)}
    ELSE IF exercise = "hip" THEN {Deg(110), Deg(80)}
    ELSE {Deg(70), Deg(115)}

\* the extrema of the k-th calibration rep: the second rep is the best one,
\* whole or fractional (88 or 88.5 degrees for squat), the first is 7 and the
\* third 4 degrees short of it (95, 88, 92)
CalibrationExtrema(exercise, k) ==
    LET best == IF exercise = "squat" THEN Deg(88)
                ELSE IF exercise = "hip" THEN Deg(100)
                ELSE Deg(90)
        away(d) == IF exercise = "shoulder" THEN best - Deg(d) ELSE best + Deg(d)
    IN IF k = 1 THEN {away(7)}
       ELSE IF k = 2 THEN {best, best + 1}
       ELSE {away(4)}

InitAdapt ==
    /\ em = NewManager
    /\ rest = [samples |-> <<>>, records |-> 0, closed |-> <<>>]
    /\ frames = 0
    /\ resets = 0
    /\ fn = [stage |-> "off"]
    /\ AdaptOff
    /\ ShOff

\* The user picks the exercise before the session starts
SelectExercise ==
    /\ em.sessionAngles = <<>> /\ ml.sessionStartTime = Null /\ resets < MaxResets
    /\ \E exercise \in Exercises \ {em.currentExercise} :
           em' = changeExercise(em, exercise)
    /\ ml' = resetIntegration(ml)
    /\ resets' = resets + 1
    /\ UNCHANGED <<rest, frames, fn, net, now, due, sent, shVars>>

\* setSessionStartTime(Date.now()) at the start of a session
SetSessionStartTime ==
    /\ em.sessionAngles = <<>> /\ ml.sessionStartTime = Null
    /\ ml' = [ml EXCEPT !.sessionStartTime = now]
    /\ UNCHANGED <<emVars, fn, net, now, due, sent, shVars>>

\* One calibration rep, followed by establishBaseline()
CalibrationRep ==
    /\ em.currentPhase = "BASELINE" /\ ml.sessionStartTime # Null
    /\ \E extremum \in CalibrationExtrema(em.currentExercise, Len(em.baselineReps) + 1) :
           em' = establishBaseline(Feed(em, RepFrames(em.currentExercise, extremum)))
    /\ UNCHANGED <<rest, frames, resets, fn, adaptVars, shVars>>

\* One training rep, begun once the follow-ups of the last one have run and
\* its requests have settled; a counted rep makes the handler's follow-ups due
RepCycle ==
    /\ em.currentPhase = "TRAINING"
    /\ Len(em.sessionAngles) < (BASELINE_REP_COUNT + MaxReps) * (WindowLen + 2)
    /\ ~due.tick /\ ~due.lstm /\ ~due.rl /\ net = <<>>
    /\ \E extremum \in RepExtrema(em.currentExercise) :
           em' = Feed(em, RepFrames(em.currentExercise, extremum))
    /\ due' = IF em'.repCount = em.repCount THEN due
              ELSE [tick |-> em'.repCount % ADAPTATION_INTERVAL = 0,
                    lstm |-> TRUE,
                    rl |-> em'.repCount % RL_INTERVAL = 0]
    /\ UNCHANGED <<rest, frames, resets, fn, ml, net, now, sent, shVars>>

\* The adaptation tick: calculateComprehensiveTarget on the session's
\* target, baseline and rep history, committed with updateTargets
AdaptationTick ==
    /\ due.tick
    /\ LET result == calculateComprehensiveTarget(ml.sessionStartTime, now,
                         em.personalTarget, em.userBaseline, em.sessionReps,
                         em.currentExercise)
       IN em' = updateTargets(em, result.newTarget)
    /\ due' = [due EXCEPT !.tick = FALSE]
    /\ UNCHANGED <<rest, frames, resets, fn, ml, net, now, sent, shVars>>

\* The micro-advisory request for the completed rep
SendLSTM ==
    /\ due.lstm /\ sent < MaxAdvisories
    /\ net' = Append(net, [kind |-> "lstm", targetAngle |-> em.personalTarget])
    /\ sent' = sent + 1
    /\ due' = [due EXCEPT !.lstm = FALSE]
    /\ UNCHANGED <<emVars, fn, ml, now, shVars>>

\* The macro-advisory request, every 5 completed reps
SendRL ==
    /\ due.rl /\ sent < MaxAdvisories
    /\ net' = Append(net, [kind |-> "rl", targetAngle |-> em.personalTarget])
    /\ sent' = sent + 1
    /\ due' = [due EXCEPT !.rl = FALSE]
    /\ UNCHANGED <<emVars, fn, ml, now, shVars>>

\* The advisories are switched off for this rep: no request is made
SkipAdvisory ==
    /\ due.lstm \/ due.rl
    /\ due' = [due EXCEPT !.lstm = FALSE, !.rl = FALSE]
    /\ UNCHANGED <<emVars, fn, ml, net, now, sent, shVars>>

RemoveAt(s, i) == SubSeq(s, 1, i - 1) \o SubSeq(s, i + 1, Len(s))

\* suggestions of the quality service around the target it was asked about:
\* 1.5 degrees above (rounds to 2), 2 below, 10 above, and a missing value
LstmBodies(targetAngle) ==
    {[kind |-> "ok", personalized_target_angle |-> targetAngle + d] : d \in {3, 0 - Deg(2), Deg(10)}}
      \cup {[kind |-> "ok", personalized_target_angle |-> 0]}

RlBodies == {[kind |-> "ok", action |-> a] : a \in 0..4}

\* A micro-advisory response settles; a non-null result is committed
LSTMResponse ==
    \E i \in 1..Len(net) :
        /\ net[i].kind = "lstm"
        /\ \E response \in FailedResponses \cup LstmBodies(net[i].targetAngle) :
             LET r == predictLSTMQuality(ml, net[i].targetAngle, response) IN
             /\ ml' = r.ml
             /\ em' = IF r.isNull \/ r.newTarget = em.personalTarget THEN em
                      ELSE updateTargets(em, r.newTarget)
        /\ net' = RemoveAt(net, i)
        /\ UNCHANGED <<rest, frames, resets, fn, now, due, sent, shVars>>

\* A macro-advisory response settles; a returned target that differs from
\* the session's is committed
RLResponse ==
    \E i \in 1..Len(net) :
        /\ net[i].kind = "rl"
        /\ \E response \in FailedResponses \cup RlBodies :
             LET r == applyRLAdjustment(ml, net[i].targetAngle, response) IN
             /\ ml' = r.ml
             /\ em' = IF r.newTarget # em.personalTarget
                      THEN updateTargets(em, r.newTarget) ELSE em
        /\ net' = RemoveAt(net, i)
        /\ UNCHANGED <<rest, frames, resets, fn, now, due, sent, shVars>>

\* Minutes pass on the session clock; the clock is read by the adaptation
\* tick only, so time is let pass just before a tick
AdvanceClock ==
    /\ em.currentPhase = "TRAINING" /\ due.tick
    /\ \E t \in ClockReadings : t > now /\ now' = t
    /\ UNCHANGED <<emVars, fn, ml, net, due, sent, shVars>>

NextAdapt ==
    \/ SelectExercise \/ SetSessionStartTime \/ CalibrationRep \/ RepCycle
    \/ AdaptationTick \/ SendLSTM \/ SendRL \/ SkipAdvisory
    \/ LSTMResponse \/ RLResponse \/ AdvanceClock

SpecAdapt == InitAdapt /\ [][NextAdapt]_vars

(***************************************************************************)
(* calculateComprehensiveTarget as a function: drawn inputs, applied once  *)
(* and then again on its own result                                        *)
(***************************************************************************)
\* histories drawn: n reps, the first half at angle x and the rest at y
HistoryLengths == {2, 3, 6, 10}

HistoryAngles == {Deg(60), 177, Deg(100), Deg(120)}

HalfAndHalf(n, x, y) == [i \in 1..n |-> [angle |-> IF 2 * i <= n THEN x ELSE y]]

Histories == {HalfAndHalf(n, x, y) : n \in HistoryLengths, x \in HistoryAngles,
                                     y \in HistoryAngles}

Baselines == {Deg(88), 181}

\* current targets, in whole degrees around the baseline
TargetOffsets == {-30, -11, -10, 0, 8, 10, 29, 30}

NoResult == [newTarget |-> Null]

InitFn ==
    /\ fn \in [ stage : {"input"},
                exercise : Exercises,
                baseline : Baselines,
                offset : TargetOffsets,
                history : Histories,
                start : {Null, 1},
                now : ClockReadings,
                first : {NoResult},
                second : {NoResult} ]
    /\ em = NewManager
    /\ rest = [samples |-> <<>>, records |-> 0, closed |-> <<>>]
    /\ frames = 0
    /\ resets = 0
    /\ AdaptOff
    /\ ShOff

\* the current target of a drawn input: a whole degree near the baseline
FnTarget(f) == MathRound(f.baseline) + Deg(f.offset)

ApplyOnce ==
    /\ fn.stage = "input"
    /\ fn' = [fn EXCEPT !.stage = "once",
                        !.first = calculateComprehensiveTarget(fn.start, fn.now,
                                      FnTarget(fn), fn.baseline, fn.history, fn.exercise)]
    /\ UNCHANGED <<emVars, adaptVars, shVars>>

ApplyAgain ==
    /\ fn.stage = "once"
    /\ fn' = [fn EXCEPT !.stage = "twice",
                        !.second = calculateComprehensiveTarget(fn.start, fn.now,
                                       fn.first.newTarget, fn.baseline, fn.history,
                                       fn.exercise)]
    /\ UNCHANGED <<emVars, adaptVars, shVars>>

NextFn == ApplyOnce \/ ApplyAgain

SpecFn == InitFn /\ [][NextFn]_vars

(***************************************************************************)
(* Frame-level specification of one ExerciseManager                        *)
(***************************************************************************)

\* Samples fed per exercise (half degrees): a rest sample, a shallow one and
\* deeper ones, one of them fractional (88.5 and 90.5 degrees)
SquatSamples == {Deg(170), Deg(120), 177}
HipSamples == {Deg(175), Deg(160), Deg(100)}
ShoulderSamples == {Deg(20), Deg(60), 181}

SamplesOf(exercise) ==
    IF exercise = "squat" THEN SquatSamples
    ELSE IF exercise = "hip" THEN HipSamples
    ELSE ShoulderSamples

\* History of the current rep: the samples since the machine left rest
\* (the leaving sample included) and the records appended since then.
RestAfter(m0, m1, angle) ==
    IF AtRest(m1) THEN [samples |-> <<>>, records |-> 0,
                        closed |-> IF AtRest(m0) THEN <<>> ELSE rest.samples]
    ELSE [samples |-> Append(IF AtRest(m0) THEN <<>> ELSE rest.samples, angle),
          records |-> (IF AtRest(m0) THEN 0 ELSE rest.records)
                        + (Len(m1.sessionReps) - Len(m0.sessionReps)),
          closed |-> <<>>]

Init ==
    /\ em = NewManager
    /\ rest = [samples |-> <<>>, records |-> 0, closed |-> <<>>]
    /\ frames = 0
    /\ resets = 0
    /\ fn = [stage |-> "off"]
    /\ AdaptOff
    /\ ShOff

Frame ==
    /\ frames < MaxFrames
    /\ \E angle \in SamplesOf(em.currentExercise) :
           /\ em' = checkFrame(em, angle)
           /\ rest' = RestAfter(em, em', angle)
    /\ frames' = frames + 1
    /\ UNCHANGED <<resets, fn, adaptVars, shVars>>

EstablishBaseline ==
    /\ em' = establishBaseline(em)
    /\ em' # em
    /\ UNCHANGED <<rest, frames, resets, fn, adaptVars, shVars>>

Reset ==
    /\ resets < MaxResets
    /\ em' = reset(em)
    /\ rest' = [samples |-> <<>>, records |-> 0, closed |-> <<>>]
    /\ resets' = resets + 1
    /\ UNCHANGED <<frames, fn, adaptVars, shVars>>

ChangeExercise ==
    /\ resets < MaxResets
    /\ \E exercise \in Exercises : em' = changeExercise(em, exercise)
    /\ rest' = [samples |-> <<>>, records |-> 0, closed |-> <<>>]
    /\ resets' = resets + 1
    /\ UNCHANGED <<frames, fn, adaptVars, shVars>>

Next == Frame \/ EstablishBaseline \/ Reset \/ ChangeExercise

Spec == Init /\ [][Next]_vars

(***************************************************************************)
(* Frame-level specification of the shoulder exercise module, with its     *)
(* quality requests in flight                                              *)
(***************************************************************************)
\* shoulder angles fed: at rest, raising, at shoulder height
ShoulderRaiseSamples == {Deg(20), Deg(60), Deg(100)}

\* the userId argument (Null when the caller passes none)
UserIds == {Null, 1}

\* the targetAngle argument (Null when the caller passes none)
TargetAngles == {Null, Deg(100)}

\* bodies of a good /predict_quality response (quality_score in percent)
QualityBodies ==
    {[kind |-> "ok", quality_score |-> 80, personalized_target_angle |-> t] :
        t \in {Deg(95), 181}}

InitSh ==
    /\ em = NewManager
    /\ rest = [samples |-> <<>>, records |-> 0, closed |-> <<>>]
    /\ frames = 0
    /\ resets = 0
    /\ fn = [stage |-> "off"]
    /\ AdaptOff
    /\ ShOff

\* no .then callback is waiting to run (a callback runs as soon as its
\* promise has settled, before any other event is handled)
NoCallbackDue ==
    \A i \in 1..Len(shNet) :
        shNet[i].kind = "predictQuality" => shNet[i].stage = "pending"

\* checkLSTMAvailability() settles at module load
AvailabilitySettles ==
    \E i \in 1..Len(shNet) :
        /\ NoCallbackDue
        /\ shNet[i].kind = "health"
        /\ \E available \in BOOLEAN : sh' = [sh EXCEPT !.lstmEnabled = available]
        /\ shNet' = RemoveAt(shNet, i)
        /\ UNCHANGED <<emVars, fn, adaptVars, sqVars, twin>>

\* One frame through checkShoulderExercise; a counted rep may call
\* predictQuality, whose promise then is pending.  The request remembers the
\* session it was made in and the targets in effect when it was made.
ShoulderFrame ==
    /\ frames < MaxShFrames /\ NoCallbackDue
    /\ \E shoulderAngle \in ShoulderRaiseSamples, userId \in UserIds,
          targetAngle \in TargetAngles :
          LET r == shoulderFrame(sh, shoulderAngle, userId, targetAngle, now) IN
          /\ sh' = r.sh
          /\ shNet' = IF r.request
                      THEN Append(shNet, [kind |-> "predictQuality",
                                          stage |-> "pending",
                                          session |-> resets,
                                          personalizedBefore |-> r.sh.personalizedTargetAngle,
                                          targetBefore |-> r.sh.targetShoulderAngle])
                      ELSE shNet
    /\ frames' = frames + 1
    /\ UNCHANGED <<em, rest, resets, fn, adaptVars, sqVars, twin>>

\* The fetch of a pending predictQuality call settles and predictQuality
\* returns its result
PredictQualitySettles ==
    \E i \in 1..Len(shNet) :
        /\ NoCallbackDue
        /\ shNet[i].kind = "predictQuality" /\ shNet[i].stage = "pending"
        /\ \E response \in FailedResponses \cup QualityBodies :
             shNet' = [shNet EXCEPT ![i] =
                          [kind |-> "predictQuality", stage |-> "settled",
                           session |-> @.session,
                           personalizedBefore |-> @.personalizedBefore,
                           targetBefore |-> @.targetBefore,
                           result |-> predictQuality(response)]]
        /\ UNCHANGED <<emVars, fn, adaptVars, sh, sqVars, twin>>

\* The .then callback runs on the returned result
ThenCallback ==
    \E i \in 1..Len(shNet) :
        /\ shNet[i].kind = "predictQuality" /\ shNet[i].stage = "settled"
        /\ sh' = thenPredictQuality(sh, shNet[i].result)
        /\ shNet' = RemoveAt(shNet, i)
        /\ UNCHANGED <<emVars, fn, adaptVars, sqVars, twin>>

\* resetShoulderExercise() between sessions
ResetShoulder ==
    /\ resets < MaxResets /\ NoCallbackDue
    /\ sh' = resetShoulderExercise(sh)
    /\ resets' = resets + 1
    /\ UNCHANGED <<em, rest, frames, fn, adaptVars, shNet, sqVars, twin>>

NextSh ==
    \/ AvailabilitySettles \/ ShoulderFrame \/ PredictQualitySettles
    \/ ThenCallback \/ ResetShoulder

SpecSh == InitSh /\ [][NextSh]_vars

(***************************************************************************)
(* Claims on the frame-level specification                                 *)
(***************************************************************************)
LowerIsHarder(m) == m.currentExercise # "shoulder"

\* v is at or beyond bound t in the harder direction of the exercise
AtOrBeyond(m, v, t) == IF LowerIsHarder(m) THEN v <= t ELSE v >= t

\* the most extreme sample of a non-empty sample list, by polarity
Extreme(m, s) == IF LowerIsHarder(m) THEN SeqMin(s) ELSE SeqMax(s)

\* a step that processed one frame
IsFrameStep == Len(em'.sessionAngles) = Len(em.sessionAngles) + 1

LastOf(s) == s[Len(s)]

\* a step in which establishBaseline completed the calibration
IsCalibrationStep == em.currentPhase = "BASELINE" /\ em'.currentPhase = "TRAINING"

\* C6 (as stated): calibration sets userBaseline to the most extreme
\* calibration extremum, minimumThreshold to round(1.3 x baseline) (0.7 for
\* shoulder) and personalTarget to exactly baseline - 10 (+ 10 for shoulder).
C6_Original ==
    [][IsCalibrationStep =>
        /\ em'.userBaseline = Extreme(em, em.baselineReps)
        /\ em'.personalTarget =
               IF LowerIsHarder(em) THEN em'.userBaseline - Deg(10)
               ELSE em'.userBaseline + Deg(10)]_vars

\* C6 (amended): calibration sets userBaseline to the most extreme of the
\* calibration extrema, minimumThreshold to the whole degree nearest to
\* 1.3 x baseline (0.7 x baseline for shoulder) and personalTarget to the
\* whole degree nearest to baseline - 10 (baseline + 10 for shoulder), a half
\* rounding up; [95, 88, 92] gives 88, 114, 78.
C6_Calibration ==
    [][IsCalibrationStep =>
        LET b == em'.userBaseline
            t == em'.personalTarget
            mn == em'.minimumThreshold
            goal == IF LowerIsHarder(em) THEN b - Deg(10) ELSE b + Deg(10)
        IN /\ \A i \in 1..Len(em.baselineReps) :
                  AtOrBeyond(em, b, em.baselineReps[i])
           /\ \E i \in 1..Len(em.baselineReps) : b = em.baselineReps[i]
           /\ t % 2 = 0 /\ t - goal \in {0, 1}
           /\ mn % 2 = 0
           /\ IF LowerIsHarder(em) THEN Abs(10 * mn - 13 * b) <= 10
              ELSE Abs(10 * mn - 7 * b) <= 10
           /\ (em.currentExercise = "squat"
                 /\ em.baselineReps = <<Deg(95), Deg(88), Deg(92)>>)
              => (b = Deg(88) /\ mn = Deg(114) /\ t = Deg(78))]_vars

\* C6 witness: a calibrated manager whose baseline is fractional (88.5)
C6_Witness ==
    /\ em.currentPhase = "TRAINING" /\ em.sessionReps = <<>>
    /\ em.userBaseline = 177 /\ em.personalTarget = Deg(79)
    /\ em.minimumThreshold = Deg(115)

\* C9: in TRAINING at most one rep record is appended (and repCount rises by
\* at most one) between two visits to rest, and the record is appended by the
\* first sample at or beyond minimumThreshold after the machine left rest.
C9_OneRepPerCycle ==
    [][/\ rest'.records <= 1
       /\ Len(em'.sessionReps) - Len(em.sessionReps) <= 1
       /\ em'.repCount - em.repCount <= 1
       /\ (IsFrameStep /\ em.currentPhase = "TRAINING") =>
            LET sample == LastOf(em'.sessionAngles)
                appended == Len(em'.sessionReps) = Len(em.sessionReps) + 1
            IN /\ appended <=> (~AtRest(em) /\ rest.records = 0
                                  /\ AtOrBeyond(em, sample, em.minimumThreshold))
               /\ appended => em'.repCount = em.repCount + 1
               /\ ~appended => em'.repCount = em.repCount]_vars

\* C9 witness: a rep was recorded without reaching the push target, and a
\* further sample beyond minimumThreshold arrived before the return to rest
C9_Witness ==
    /\ em.currentPhase = "TRAINING" /\ em.currentState = "THRESHOLD_MET"
    /\ rest.records = 1 /\ Len(rest.samples) >= 3
    /\ ~LastOf(em.sessionReps).reachedPushTarget
    /\ AtOrBeyond(em, LastOf(rest.samples), em.minimumThreshold)

\* C10: the angle recorded for a completed rep (a calibration extremum or a
\* training repData.angle) is the most extreme sample among the samples of
\* that rep only (from leaving rest to returning to it).
C10_RepExtremum ==
    [][(IsFrameStep /\ ~AtRest(em) /\ AtRest(em')) =>
        /\ Len(em'.baselineReps) = Len(em.baselineReps) + 1
             => LastOf(em'.baselineReps) = Extreme(em, rest.samples)
        /\ rest.records = 1
             => LastOf(em.sessionReps).angle = Extreme(em, rest.samples)]_vars

(***************************************************************************)
(* Claims on calculateComprehensiveTarget as a function                    *)
(***************************************************************************)
FnApplied == fn.stage \in {"once", "twice"} /\ Len(fn.history) >= 3

FnLower == fn.exercise # "shoulder"

\* C3: when the target moved by the step-table adjustment a lies inside the
\* safety envelope, calculateComprehensiveTarget returns currentTarget + a
\* for squat/hip (baseline 88, target 78, adjustment +5 gives 83) and
\* currentTarget - a for shoulder.
C3_InsideEnvelope ==
    FnApplied =>
        LET a == Deg(fn.first.adjustment)
            moved == IF FnLower THEN FnTarget(fn) + a ELSE FnTarget(fn) - a
            lo == IF FnLower THEN fn.baseline - Deg(30) ELSE fn.baseline - Deg(10)
            hi == IF FnLower THEN fn.baseline + Deg(10) ELSE fn.baseline + Deg(30)
        IN (lo <= moved /\ moved <= hi) => fn.first.newTarget = moved

\* C4: a second invocation with the same history, baseline and
\* clock reading, fed the target the first one returned, returns that target.
C4_Original ==
    fn.stage = "twice" => fn.second.newTarget = fn.first.newTarget

\* C5: when an adaptation tick changes the push target, the minimum threshold
\* it yields is round(1.3 x NEW target) for squat/hip and round(0.7 x NEW
\* target) for shoulder, never derived from the old target or moved by an
\* offset of its own.
C5_Proportional ==
    (FnApplied /\ fn.first.newTarget # FnTarget(fn)) =>
        fn.first.newMinimum = IF FnLower THEN RoundMul13(fn.first.newTarget)
                              ELSE RoundMul07(fn.first.newTarget)

(***************************************************************************)
(* Claims on the training session                                          *)
(***************************************************************************)
\* a step that commits an adaptation tick or settles an advisory
IsCommitStep == (due.tick /\ ~due'.tick) \/ Len(net') < Len(net)

\* C1: after every adaptation tick and every advisory result committed to the
\* session, the push target is inside the safety envelope of the baseline:
\* [baseline - 10, baseline + 30] for shoulder, [baseline - 30, baseline + 10]
\* for squat/hip.
C1_Envelope ==
    [][IsCommitStep =>
        LET b == em'.userBaseline
            t == em'.personalTarget
        IN IF LowerIsHarder(em')
           THEN b - Deg(30) <= t /\ t <= b + Deg(10)
           ELSE b - Deg(10) <= t /\ t <= b + Deg(30)]_vars

IsCallbackOf(i) ==
    /\ shNet[i].kind = "predictQuality" /\ shNet[i].stage = "settled"
    /\ Len(shNet') = Len(shNet) - 1 /\ shNet' = RemoveAt(shNet, i)

\* C7: when an advisory request fails (network error, non-OK status or
\* malformed body) the target angle in effect afterwards is the one that was
\* in effect before the request; here for lstmClient.predictQuality as
\* consumed by checkShoulderExercise.
C7_FailureKeepsTarget ==
    [][\A i \in 1..Len(shNet) :
          (IsCallbackOf(i) /\ shNet[i].result.error) =>
              /\ sh'.targetShoulderAngle = shNet[i].targetBefore
              /\ sh'.personalizedTargetAngle = shNet[i].personalizedBefore]_vars

\* C8: when the session was reset while an advisory request was outstanding,
\* the response that arrives afterwards changes no session state: neither
\* the target angle nor any rep record of the new session.
C8_LateResponseDiscarded ==
    [][\A i \in 1..Len(shNet) :
          (IsCallbackOf(i) /\ shNet[i].session < resets) =>
              /\ sh'.targetShoulderAngle = sh.targetShoulderAngle
              /\ sh'.personalizedTargetAngle = sh.personalizedTargetAngle
              /\ sh'.sessionReps = sh.sessionReps]_vars

(***************************************************************************)
(* Further claims on the frame-level specification                         *)
(***************************************************************************)
\* C11: a training rep whose samples reach personalTarget before the angle
\* returns to rest is recorded with reachedPushTarget = true, and a rep whose
\* samples never reach personalTarget is recorded with reachedPushTarget =
\* false.
C11_ReachedPushTarget ==
    [][/\ (IsFrameStep /\ ~AtRest(em') /\ rest'.records = 1) =>
            LET rep == LastOf(em'.sessionReps)
            IN AtOrBeyond(em', Extreme(em', rest'.samples), rep.pushTarget)
                 => rep.reachedPushTarget
       /\ (IsFrameStep /\ ~AtRest(em) /\ AtRest(em') /\ rest.records = 1) =>
            LET rep == LastOf(em.sessionReps)
            IN rep.reachedPushTarget
                 <=> AtOrBeyond(em, Extreme(em, rest.samples), rep.pushTarget)]_vars

(***************************************************************************)
(* Further claims on the shoulder module                                   *)
(***************************************************************************)
\* the target checkShoulderExercise uses for an argument of TargetAngles
AdaptiveTargetOf(targetAngle) == IF targetAngle = Null THEN standardTarget ELSE targetAngle

\* samples that start at rest and make one full raise: a rising sample past
\* raisingThreshold, then without any lowering a sample at every target the
\* callers pass, then a lowering sample, then a sample at or below downAngle
\* that ends the sequence
CompleteCycle(s) ==
    \E i, j, k \in 1..Len(s) :
        /\ i < j /\ j < k /\ k < Len(s)
        /\ s[i] > raisingThreshold
        /\ i > 1 => s[i] > s[i - 1]
        /\ \A m \in (i + 1)..j : s[m] >= s[m - 1]
        /\ \A t \in TargetAngles : s[j] >= AdaptiveTargetOf(t)
        /\ s[k] < s[k - 1]
        /\ s[Len(s)] <= downAngle

\* C12: every complete cycle (past the movement threshold, to the target, back
\* to the rest angle) increments repCount, also after the first completed rep:
\* the samples the shoulder module has collected since it last counted a rep
\* never hold a complete cycle that was left uncounted.
C12_EveryCycleCounts ==
    sh.currentState = "COMPLETED" => ~CompleteCycle(sh.currentRepAngleSequence)

(***************************************************************************)
(* The squat module frame by frame: one caller (a user, a history and a    *)
(* target override, or none of them) feeds frames, ends the session and    *)
(* resets the module                                                       *)
(***************************************************************************)
MaxSqFrames == 5

KneeSamples == {Deg(170), Deg(120), Deg(80)}

\* k past sessions of two reps each, all of the same average angle
HistoryOf(angle, k) ==
    [ sessions |-> [i \in 1..k |-> [reps |-> <<angle, angle>>]],
      personalTarget |-> Null ]

\* no history; one session (baseline not established, target 108); three
\* sessions at 100 degrees (target eased to 93); three sessions at 80 degrees
\* (target tightened to 87)
UserHistories ==
    {NullHistory, HistoryOf(Deg(100), 1), HistoryOf(Deg(100), 3), HistoryOf(Deg(80), 3)}

KneeTargets == {Null, Deg(100)}

InitSq ==
    /\ em = NewManager
    /\ rest = [samples |-> <<>>, records |-> 0, closed |-> <<>>]
    /\ frames = 0
    /\ resets = 0
    /\ fn = [stage |-> "off"]
    /\ AdaptOff
    /\ sh = NewShoulder
    /\ shNet = <<[kind |-> "health"]>>
    /\ twin = NoTwin
    /\ solo = NoSolo
    /\ sq = NewSquat
    /\ \E userId \in UserIds, userHistory \in UserHistories, targetKneeAngle \in KneeTargets :
          sqCall = [NoCaller EXCEPT !.userId = userId, !.userHistory = userHistory,
                                    !.targetKneeAngle = targetKneeAngle]

\* One frame through checkSquat
SquatFrame ==
    /\ frames < MaxSqFrames
    /\ \E kneeAngle \in KneeSamples :
          /\ sq' = squatFrame(sq, kneeAngle, sqCall.userId, sqCall.userHistory,
                              sqCall.targetKneeAngle, now)
          /\ sqCall' = [sqCall EXCEPT !.samples = Append(@, kneeAngle)]
    /\ frames' = frames + 1
    /\ UNCHANGED <<em, rest, resets, fn, adaptVars, sh, shNet, solo, twin>>

\* endSquatSession(userId), once per session
EndSquatSession ==
    /\ sqCall.returned = NotCalled
    /\ LET r == endSquatSession(sq, sqCall.userId) IN
          /\ sq' = r.sq
          /\ sqCall' = [sqCall EXCEPT !.returned = r.returned]
    /\ UNCHANGED <<emVars, fn, adaptVars, sh, shNet, solo, twin>>

\* resetSquat() between sessions
ResetSquat ==
    /\ resets < MaxResets
    /\ sq' = resetSquat(sq)
    /\ sqCall' = [sqCall EXCEPT !.samples = <<>>, !.returned = NotCalled]
    /\ resets' = resets + 1
    /\ UNCHANGED <<em, rest, frames, fn, adaptVars, sh, shNet, solo, twin>>

NextSq == SquatFrame \/ EndSquatSession \/ ResetSquat

SpecSq == InitSq /\ [][NextSq]_vars

(***************************************************************************)
(* Replay: two fresh managers are fed the same frames and the same         *)
(* establishBaseline calls, each in a run of its own, so each rep record   *)
(* carries the Date.now() reading of its own run                           *)
(***************************************************************************)
MaxTwinFrames == 8

\* the samples of a replayed squat session
TwinSamples == {Deg(170), Deg(120)}

InitTwin ==
    /\ em = NewManager
    /\ rest = [samples |-> <<>>, records |-> 0, closed |-> <<>>]
    /\ frames = 0
    /\ resets = 0
    /\ fn = [stage |-> "off"]
    /\ AdaptOff
    /\ ShOff

\* timestamp: Date.now() of a new rep record: a reading not before the
\* earlier ones of the same run
StampsAfter(stamps, before, after) ==
    IF Len(after.sessionReps) = Len(before.sessionReps)
    THEN {stamps}
    ELSE {Append(stamps, t) : t \in {r \in ClockReadings :
                                       stamps = <<>> \/ r >= stamps[Len(stamps)]}}

\* the same frame through both managers
TwinFrame ==
    /\ frames < MaxTwinFrames
    /\ \E angle \in TwinSamples :
          /\ em' = checkFrame(em, angle)
          /\ \E sa \in StampsAfter(twin.stamps, em, em'),
                sb \in StampsAfter(twin.twinStamps, twin.machine,
                                   checkFrame(twin.machine, angle)) :
                twin' = [machine |-> checkFrame(twin.machine, angle),
                         stamps |-> sa, twinStamps |-> sb]
    /\ frames' = frames + 1
    /\ UNCHANGED <<rest, resets, fn, adaptVars, sh, shNet, sqVars>>

\* establishBaseline() on both managers
TwinEstablishBaseline ==
    /\ em' = establishBaseline(em)
    /\ em' # em
    /\ twin' = [twin EXCEPT !.machine = establishBaseline(@)]
    /\ UNCHANGED <<rest, frames, resets, fn, adaptVars, sh, shNet, sqVars>>

NextTwin == TwinFrame \/ TwinEstablishBaseline

SpecTwin == InitTwin /\ [][NextTwin]_vars

\* the rep records of a manager as the code writes them, timestamp included
StampedReps(m, stamps) ==
    [i \in 1..Len(m.sessionReps) |->
        [ angle |-> m.sessionReps[i].angle,
          timestamp |-> stamps[i],
          minimumThreshold |-> m.sessionReps[i].minimumThreshold,
          pushTarget |-> m.sessionReps[i].pushTarget,
          reachedPushTarget |-> m.sessionReps[i].reachedPushTarget,
          baseline |-> m.sessionReps[i].baseline ]]

\* C15: two fresh state machines fed the same ordered samples and the same
\* establishBaseline calls produce identical rep records, field by field, and
\* end in identical states.
C15_ReplayIdentical ==
    /\ StampedReps(em, twin.stamps) = StampedReps(twin.machine, twin.twinStamps)
    /\ em = twin.machine

(***************************************************************************)
(* Claims on the squat module                                              *)
(***************************************************************************)
\* checkSquat is called with a userId and a userHistory
PersonalizedCall == sqCall.userId # Null /\ sqCall.userHistory # NullHistory

\* samples that hold one squat to the target: a sample past the movement
\* threshold but not below the target, then without standing up a sample
\* below the target, then a sample above the threshold
SquatCycle(s, target) ==
    \E i, j, k \in 1..Len(s) :
        /\ i < j /\ j < k
        /\ s[i] < thresholdKneeAngle /\ s[i] >= target
        /\ \A m \in i..j : s[m] <= thresholdKneeAngle
        /\ s[j] < target
        /\ s[k] > thresholdKneeAngle

\* C13: called with a userId and a userHistory, checkSquat uses the numeric
\* target of calculatePersonalTarget: once the knee angle has gone below that
\* target and back above 160 degrees, a rep has been counted.
C13_PersonalizedTargetCounts ==
    (PersonalizedCall
       /\ SquatCycle(sqCall.samples,
                     calculatePersonalTarget(sqCall.userHistory, standardKneeTarget).target))
      => sq.repCount >= 1

\* C14: ending a session that has a userId and at least one recorded rep
\* returns, without a thrown fault, a summary holding the session statistics,
\* a recommendation and the rewards.
C14_EndSessionReturnsSummary ==
    [][(sqCall.returned = NotCalled /\ sqCall'.returned # NotCalled
          /\ sqCall.userId # Null /\ sq.sessionReps # <<>>) =>
          /\ {"sessionSummary", "recommendation", "rewards"} \subseteq DOMAIN sqCall'.returned
          /\ "sessionStats" \in DOMAIN sqCall'.returned.sessionSummary]_vars

(***************************************************************************)
(* Claims on calibration (frame-level specification)                       *)
(***************************************************************************)
\* a step that is a call of establishBaseline()
IsEstablishStep == em' = establishBaseline(em) /\ em'.sessionAngles = em.sessionAngles

\* C16: while fewer than 3 baseline reps have been recorded, establishBaseline
\* leaves the phase BASELINE and the manager unchanged, and no target exists:
\* personalTarget and minimumThreshold are still null.
C16_NoTargetBeforeCalibration ==
    Len(em.baselineReps) < BASELINE_REP_COUNT =>
        /\ establishBaseline(em) = em
        /\ em.currentPhase = "BASELINE"
        /\ em.personalTarget = Null
        /\ em.minimumThreshold = Null

\* C17: the phase changes from BASELINE to TRAINING only when 3 baseline reps
\* have been recorded since the last reset (each of them at least two samples),
\* and returns to BASELINE only through reset or changeExercise; so it changes
\* to TRAINING at most once between two resets.
C17_PhaseOnce ==
    [][/\ (em.currentPhase = "BASELINE" /\ em'.currentPhase = "TRAINING") =>
            /\ Len(em.baselineReps) >= BASELINE_REP_COUNT
            /\ Len(em.sessionAngles) >= 2 * BASELINE_REP_COUNT
       /\ (em.currentPhase = "TRAINING" /\ em'.currentPhase = "BASELINE") =>
            resets' = resets + 1]_vars

\* C17 witness: after a reset the manager has been calibrated again and has
\* counted a training rep
C17_Witness ==
    em.currentPhase = "TRAINING" /\ resets = 1 /\ em.repCount >= 1

\* C18: the calibration buffer baselineReps never holds more than 3 extrema.
C18_BufferOfThree ==
    Len(em.baselineReps) <= BASELINE_REP_COUNT

\* C19: establishBaseline called while the phase is TRAINING changes none of
\* userBaseline, minimumThreshold and personalTarget.
C19_CalibratedOnce ==
    [][(em.currentPhase = "TRAINING" /\ IsEstablishStep) =>
          /\ em'.userBaseline = em.userBaseline
          /\ em'.minimumThreshold = em.minimumThreshold
          /\ em'.personalTarget = em.personalTarget]_vars

\* C20: no frame of the training phase, so no completed training rep, changes
\* the calibrated baseline userBaseline.
C20_BaselineKept ==
    [][(em.currentPhase = "TRAINING" /\ IsFrameStep) =>
          em'.userBaseline = em.userBaseline]_vars

(***************************************************************************)
(* Claims on rep records, sessions and frames                              *)
(***************************************************************************)
\* C21: once a rep record has been appended to the session's rep list, none
\* of its fields changes and it is not removed, except when a session reset
\* clears the whole list.
C21_RecordsImmutable ==
    [][resets' = resets =>
          /\ Len(sh'.sessionReps) >= Len(sh.sessionReps)
          /\ \A i \in 1..Len(sh.sessionReps) :
                sh'.sessionReps[i] = sh.sessionReps[i]]_vars

(***************************************************************************)
(* Two users' sessions on the one squat module, frames in any interleaving *)
(***************************************************************************)
MaxShareFrames == 5

InitShare ==
    /\ em = NewManager
    /\ rest = [samples |-> <<>>, records |-> 0, closed |-> <<>>]
    /\ frames = 0
    /\ resets = 0
    /\ fn = [stage |-> "off"]
    /\ AdaptOff
    /\ ShOff

\* One frame of one user's session through checkSquat; sqCall remembers whose
\* frame it was
SharedFrame ==
    /\ frames < MaxShareFrames
    /\ \E userId \in SessionUsers, kneeAngle \in KneeSamples :
          /\ sq' = squatFrame(sq, kneeAngle, userId, NullHistory, Null, now)
          /\ solo' = [solo EXCEPT ![userId] =
                         squatFrame(@, kneeAngle, userId, NullHistory, Null, now)]
          /\ sqCall' = [sqCall EXCEPT !.userId = userId, !.samples = Append(@, kneeAngle)]
    /\ frames' = frames + 1
    /\ UNCHANGED <<em, rest, resets, fn, adaptVars, sh, shNet, twin>>

\* resetSquat() called for one user's session
SharedReset ==
    /\ resets < MaxResets
    /\ \E userId \in SessionUsers :
          /\ sq' = resetSquat(sq)
          /\ solo' = [solo EXCEPT ![userId] = resetSquat(@)]
          /\ sqCall' = [sqCall EXCEPT !.userId = userId, !.samples = <<>>]
    /\ resets' = resets + 1
    /\ UNCHANGED <<em, rest, frames, fn, adaptVars, sh, shNet, twin>>

NextShare == SharedFrame \/ SharedReset

SpecShare == InitShare /\ [][NextShare]_vars

\* C22: frames processed for one user never change the state, rep count, rep
\* history or target of another user's session: after any interleaving, the
\* session of the user whose call was handled last is as it would be had that
\* user's calls been the only ones.
C22_SessionsIsolated ==
    sqCall.userId # Null => sq = solo[sqCall.userId]

(***************************************************************************)
(* Frames without an angle value given to the ExerciseManager, up to the   *)
(* first such frame of a session                                           *)
(***************************************************************************)
MaxAbsentFrames == 5

\* checkSquat(kneeAngle) called without an angle value: the sample is pushed
\* (and captured while not standing) as it is, and every comparison of the
\* phase branches is false on it
checkSquatNoAngle(m) == PushSample(m, Undefined)

\* no frame so far was without an angle value
NoAbsentSample == \A i \in 1..Len(em.sessionAngles) : em.sessionAngles[i] # Undefined

\* One frame with an angle value
PresentFrame ==
    /\ frames < MaxAbsentFrames /\ NoAbsentSample
    /\ \E angle \in SamplesOf(em.currentExercise) :
           /\ em' = checkFrame(em, angle)
           /\ rest' = RestAfter(em, em', angle)
    /\ frames' = frames + 1
    /\ UNCHANGED <<resets, fn, adaptVars, shVars>>

\* One frame without an angle value
AbsentFrame ==
    /\ frames < MaxAbsentFrames /\ NoAbsentSample
    /\ em' = checkSquatNoAngle(em)
    /\ frames' = frames + 1
    /\ UNCHANGED <<rest, resets, fn, adaptVars, shVars>>

NextAbsent == PresentFrame \/ AbsentFrame

SpecAbsent == Init /\ [][NextAbsent]_vars

\* C23: a frame with absent input changes no session state: the state machine
\* state, rep count, sample history, captured rep sequence, calibration buffer
\* and rep records are as before the frame.
C23_AbsentFrameNoEffect ==
    [][(frames' = frames + 1 /\ em'.sessionAngles # <<>>
          /\ LastOf(em'.sessionAngles) = Undefined) =>
          /\ em'.currentState = em.currentState
          /\ em'.repCount = em.repCount
          /\ em'.sessionAngles = em.sessionAngles
          /\ em'.currentRepAngleSequence = em.currentRepAngleSequence
          /\ em'.baselineReps = em.baselineReps
          /\ em'.sessionReps = em.sessionReps]_vars

\* C24: the state machine leaves the rest state only on a sample that is
\* beyond the movement threshold and strictly beyond the previous sample of
\* the session in the active direction (for the squat: a smaller knee angle).
C24_LeavesRestOnMotion ==
    [][(sq.currentState = "STANDING" /\ sq'.currentState # "STANDING") =>
          /\ LastOf(sqCall'.samples) < thresholdKneeAngle
          /\ sqCall.samples # <<>> =>
                LastOf(sqCall'.samples) < LastOf(sqCall.samples)]_vars

(***************************************************************************)
(* The advisories and the insufficient-data guard as functions: drawn      *)
(* inputs, applied once                                                    *)
(***************************************************************************)
\* targets asked about: whole degrees and one half degree
AdviceTargets == {Deg(80), Deg(90), 177}

\* how far the micro-advisory's suggestion is from the target, half degrees
SuggestionOffsets == {0, 3, -4, -5, 5, 20}

SuggestionBodies(targetAngle) ==
    {[kind |-> "ok", personalized_target_angle |-> targetAngle + d] : d \in SuggestionOffsets}
      \cup {[kind |-> "ok", personalized_target_angle |-> 0]}

\* the five actions and one the switch does not know
ActionBodies == {[kind |-> "ok", action |-> a] : a \in {0, 1, 2, 3, 4, 7}}

RepCounts == {0, 3, 5, 10}

RlHistoryLengths == {0, 4, 10, 12}

RlReps(n, angle, quality) == [i \in 1..n |-> [angle |-> angle, quality |-> quality]]

RlHistories == {RlReps(n, angle, quality) : n \in RlHistoryLengths,
                                            angle \in {0, Deg(85)},
                                            quality \in {"good", "poor"}}

\* history arguments of the insufficient-data guard: none, or 0..3 and 6 reps
GuardHistories ==
    {HistoryMissing} \cup {HistoryGiven(HalfAndHalf(n, Deg(100), Deg(120))) : n \in {0, 1, 2, 3, 6}}

LstmCalls ==
    UNION {[ stage : {"drawn"}, call : {"lstm"}, targetAngle : {t},
             response : FailedResponses \cup SuggestionBodies(t),
             result : {NoResult} ] : t \in AdviceTargets}

RlCalls ==
    [ stage : {"drawn"}, call : {"rl"}, exercise : Exercises, repCount : RepCounts,
      userHistory : RlHistories, currentTarget : {Deg(80), Deg(90)},
      start : {Null, 1}, response : FailedResponses \cup ActionBodies,
      result : {NoResult} ]

GuardCalls ==
    [ stage : {"drawn"}, call : {"adapt"}, exercise : Exercises,
      baseline : Baselines, offset : {-10, 0, 8}, userHistory : GuardHistories,
      result : {NoResult} ]

InitAdvice ==
    /\ fn \in LstmCalls \cup RlCalls \cup GuardCalls
    /\ em = NewManager
    /\ rest = [samples |-> <<>>, records |-> 0, closed |-> <<>>]
    /\ frames = 0
    /\ resets = 0
    /\ AdaptOff
    /\ ShOff

ApplyLSTM ==
    /\ fn.stage = "drawn" /\ fn.call = "lstm"
    /\ fn' = [fn EXCEPT !.stage = "applied",
                        !.result = predictLSTMQuality(ml, fn.targetAngle, fn.response)]
    /\ UNCHANGED <<emVars, adaptVars, shVars>>

ApplyRL ==
    /\ fn.stage = "drawn" /\ fn.call = "rl"
    /\ fn' = [fn EXCEPT !.stage = "applied",
                        !.result = applyRLAdjustmentCall(
                                       [ml EXCEPT !.sessionStartTime = fn.start], 12,
                                       fn.repCount, fn.userHistory, fn.currentTarget,
                                       fn.response)]
    /\ UNCHANGED <<emVars, adaptVars, shVars>>

ApplyGuard ==
    /\ fn.stage = "drawn" /\ fn.call = "adapt"
    /\ fn' = [fn EXCEPT !.stage = "applied",
                        !.result = calculateComprehensiveTargetCall(
                                       Null, 12, FnTarget(fn), fn.baseline,
                                       fn.userHistory, fn.exercise)]
    /\ UNCHANGED <<emVars, adaptVars, shVars>>

NextAdvice == ApplyLSTM \/ ApplyRL \/ ApplyGuard

SpecAdvice == InitAdvice /\ [][NextAdvice]_vars

Applied(call) == fn.stage = "applied" /\ fn.call = call

C26_OnlyEaseAndTightenMove ==
    Applied("rl") =>
        LET moves == /\ fn.repCount % 5 = 0
                     /\ fn.response.kind = "ok"
                     /\ fn.response.action \in {0, 2}
        IN /\ fn.repCount % 5 # 0 => fn.result.posted = NoRequest
           /\ ~moves => fn.result.newTarget = fn.currentTarget
           /\ moves => Abs(fn.result.newTarget - fn.currentTarget) = Deg(5)

\* C26 witness: at rep 5 the advisory answered 'tighten' and the target moved
C26_Witness ==
    /\ Applied("rl") /\ fn.repCount = 5
    /\ fn.response = [kind |-> "ok", action |-> 2]
    /\ fn.result.newTarget = fn.currentTarget - Deg(5)

\* The easier direction of an exercise: a higher angle for squat and hip, a
\* lower one for the shoulder
Easier(exercise, from, to) == IF exercise = "shoulder" THEN to < from ELSE to > from

C28_TwentyElements ==
    (Applied("rl") /\ fn.repCount % 5 = 0) => Len(fn.result.posted) = 20

\* C28 witness: a state was posted for an empty history
C28_Witness ==
    /\ Applied("rl") /\ fn.repCount % 5 = 0
    /\ fn.userHistory = <<>>
    /\ Len(fn.result.posted) = 20

\* C29: with no history, or fewer than 3 reps in it,
\* calculateComprehensiveTarget returns the current target, adjustment 0 and
\* five factors of 0
C29_InsufficientDataNoOp ==
    (Applied("adapt") /\ (~fn.userHistory.given \/ Len(fn.userHistory.reps) < 3)) =>
        /\ fn.result.newTarget = FnTarget(fn)
        /\ fn.result.adjustment = 0
        /\ fn.result.factors.rom = 0 /\ fn.result.factors.fatigue = 0
        /\ fn.result.factors.consistency = 0 /\ fn.result.factors.trend = 0
        /\ fn.result.factors.duration = 0

\* C29 witness: the function was applied to two reps and kept the target
C29_Witness ==
    /\ Applied("adapt") /\ fn.userHistory.given
    /\ Len(fn.userHistory.reps) = 2
    /\ fn.result.newTarget = FnTarget(fn)

\* the factor totals the five factors can add up to
FactorTotals == -4..13

\* C30: the adjustment is the step function of the factor total (>= 5 gives
\* 5, 3..4 gives 3, 1..2 gives 1, 0 gives 0, -1 gives -1, -2..-3 gives -2,
\* <= -4 gives -3), so it has the sign of the total, does not decrease as
\* the total grows, and is at most 5 in magnitude
C30_StepFunction ==
    FnApplied =>
        LET total == fn.first.factors.total
            adjustment == fn.first.adjustment
        IN /\ total >= 5 => adjustment = 5
           /\ total \in 3..4 => adjustment = 3
           /\ total \in 1..2 => adjustment = 1
           /\ total = 0 => adjustment = 0
           /\ total = -1 => adjustment = -1
           /\ total \in -3..-2 => adjustment = -2
           /\ total <= -4 => adjustment = -3
           /\ (adjustment > 0) = (total > 0)
           /\ (adjustment < 0) = (total < 0)
           /\ Abs(adjustment) <= 5
           /\ \A t \in FactorTotals :
                 /\ t <= total => StepTable(t) <= adjustment
                 /\ t >= total => StepTable(t) >= adjustment

\* C30 witness: a total of -2 or -3 was mapped to an adjustment of -2
C30_Witness ==
    /\ FnApplied
    /\ fn.first.factors.total \in -3..-2
    /\ fn.first.adjustment = -2

(***************************************************************************)
(* Claims on the personalized shoulder target                              *)
(***************************************************************************)
\* the personalized targets a good quality prediction can return
PersonalizedTargets == {b.personalized_target_angle : b \in QualityBodies}

\* C31: once a quality prediction has returned a personalized target T, the
\* target the next frame compares the shoulder angle with is T
C31_PersonalizedTargetInEffect ==
    [][(frames' = frames + 1 /\ sh.personalizedTargetAngle \in PersonalizedTargets) =>
          sh'.targetShoulderAngle = sh.personalizedTargetAngle]_vars

(***************************************************************************)
(* Claims on rep counting in the squat module                              *)
(***************************************************************************)
\* C32: checkSquat counts a rep only on the step from SQUATTING to FINISHED:
\* the counting sample is above 160 degrees and an earlier sample of the
\* same rep (none above 160 degrees since) was below the target; a descent
\* that comes back above 160 degrees from DESCENDING counts nothing
C32_CountsFullSquatsOnly ==
    [][/\ sq'.repCount > sq.repCount =>
             /\ sq.currentState = "SQUATTING" /\ sq'.currentState = "FINISHED"
             /\ LastOf(sqCall'.samples) > thresholdKneeAngle
             /\ \E i \in 1..Len(sqCall.samples) :
                   /\ Less(sqCall.samples[i], sq'.targetKneeAngle)
                   /\ \A j \in (i + 1)..Len(sqCall.samples) :
                         sqCall.samples[j] <= thresholdKneeAngle
       /\ (sq.currentState = "DESCENDING" /\ frames' = frames + 1
             /\ LastOf(sqCall'.samples) > thresholdKneeAngle) =>
             /\ sq'.repCount = sq.repCount
             /\ sq'.currentState = "STANDING"]_vars

\* C32 witness: a rep was counted on a sample above 160 degrees
C32_Witness ==
    /\ sq.repCount = 1 /\ sq.currentState = "FINISHED"
    /\ sqCall.samples # <<>>
    /\ LastOf(sqCall.samples) > thresholdKneeAngle

(***************************************************************************)
(* Claims on the rows, counters and thresholds of the ExerciseManager      *)
(***************************************************************************)
\* s is the end of t
IsSuffix(s, t) ==
    /\ Len(s) <= Len(t)
    /\ \A i \in 1..Len(s) : s[i] = t[Len(t) - Len(s) + i]

\* C33: the angleSequence returned with a completed training rep holds rows
\* only for samples taken since the machine last left rest, none from a
\* baseline rep or an earlier rep
C33_SequenceOfThisRep ==
    [][(frames' = frames + 1 /\ Len(em'.sessionReps) = Len(em.sessionReps) + 1) =>
          IsSuffix(em'.currentRepAngleSequence, rest'.samples)]_vars

\* C34: while the phase is BASELINE no frame changes repCount or sessionReps;
\* a completed baseline rep only appends its extremum to baselineReps
C34_BaselineRepOnlyCalibrates ==
    [][(IsFrameStep /\ em.currentPhase = "BASELINE") =>
          /\ em'.repCount = em.repCount
          /\ em'.sessionReps = em.sessionReps
          /\ em'.baselineReps =
                IF ~AtRest(em) /\ AtRest(em')
                THEN Append(em.baselineReps, Extreme(em, rest.samples))
                ELSE em.baselineReps]_vars

\* C35: after reset() or changeExercise() nothing of the previous session is
\* left: the phase is BASELINE, repCount is 0, the rep, sample and
\* calibration lists are empty, and personalTarget and minimumThreshold are
\* unset as after construction
C35_ResetForgetsSession ==
    [][resets' = resets + 1 =>
          /\ em'.currentPhase = "BASELINE" /\ em'.repCount = 0
          /\ em'.sessionReps = <<>> /\ em'.sessionAngles = <<>>
          /\ em'.baselineReps = <<>> /\ em'.currentRepAngleSequence = <<>>
          /\ em'.personalTarget = NewManager.personalTarget
          /\ em'.minimumThreshold = NewManager.minimumThreshold]_vars

(***************************************************************************)
(* The ExerciseManager calibrated on shallow reps: samples that only just  *)
(* cross the movement threshold                                            *)
(***************************************************************************)
MaxShallowFrames == 8

\* at rest and just past the movement threshold (160, 150 and 30 degrees)
ShallowSamplesOf(exercise) ==
    IF exercise = "squat" THEN {Deg(170), Deg(150)}
    ELSE IF exercise = "hip" THEN {Deg(175), Deg(140)}
    ELSE {Deg(20), Deg(35)}

\* One frame of a shallow session
ShallowFrame ==
    /\ frames < MaxShallowFrames
    /\ \E angle \in ShallowSamplesOf(em.currentExercise) :
           /\ em' = checkFrame(em, angle)
           /\ rest' = RestAfter(em, em', angle)
    /\ frames' = frames + 1
    /\ UNCHANGED <<resets, fn, adaptVars, shVars>>

NextShallow == ShallowFrame \/ EstablishBaseline \/ ChangeExercise

SpecShallow == Init /\ [][NextShallow]_vars

\* The angle a sample has to cross for the machine to leave rest
MovementThreshold(m) ==
    IF m.currentExercise = "squat" THEN Deg(160)
    ELSE IF m.currentExercise = "hip" THEN Deg(150)
    ELSE Deg(30)

\* C36: after calibration minimumThreshold lies strictly beyond the movement
\* threshold in the harder direction: below 160 for squat, below 150 for
\* hip, above 30 for shoulder
C36_MinimumBeyondMovement ==
    em.currentPhase = "TRAINING" =>
        IF LowerIsHarder(em) THEN em.minimumThreshold < MovementThreshold(em)
        ELSE em.minimumThreshold > MovementThreshold(em)

\* C37: in every state of an ExerciseManager repCount is the number of
\* records in sessionReps
C37_CountMatchesRecords == em.repCount = Len(em.sessionReps)

\* C37 witness: a training rep has been counted and recorded
C37_Witness ==
    /\ em.currentPhase = "TRAINING"
    /\ em.repCount = 1 /\ Len(em.sessionReps) = 1

(***************************************************************************)
(* The reward system (utils/rewardSystem.js)                               *)
(***************************************************************************)
\* rewardConfig.rpAwards
rpAwards ==
    [ repCompleted |-> 10, goodForm |-> 5, perfectForm |-> 10,
      sessionComplete |-> 50, dailyGoalMet |-> 100, streakBonus |-> 20,
      weeklyGoalMet |-> 150, personalBest |-> 25, difficultyIncrease |-> 200,
      consistencyBonus |-> 30 ]

\* rewardConfig.levels: minRP of levels 1..20 (maxRP is the next minRP, and
\* Infinity for level 20)
levelMinRP ==
    << 0, 200, 400, 700, 1100, 1600, 2200, 2900, 3700, 4600, 5600, 6800, 8200,
       10000, 12000, 15000, 18500, 22500, 27000, 32000 >>

\* rewardConfig.dailyGoal
dailyGoal == [minReps |-> 20, minExercises |-> 1, minSessionDuration |-> 300]

\* rewardConfig.streaks
streaks == [milestones |-> {3, 7, 14, 30, 60, 90}, gracePeriod |-> 36]

\* calculateRepRP(repData, targetAngle): the total of the breakdown
calculateRepRP(repData, targetAngle) ==
    LET angleDifference == Abs(repData.avg - targetAngle)
        formBonus == IF angleDifference <= Deg(2) THEN rpAwards.perfectForm
                     ELSE IF angleDifference <= Deg(10) THEN rpAwards.goodForm
                     ELSE 0
    IN rpAwards.repCompleted + formBonus

RECURSIVE RepsTotal(_)
\* reps.forEach(rep => rpBreakdown.repsTotal += calculateRepRP(rep, rep.targetAngle).total)
RepsTotal(reps) ==
    IF reps = <<>> THEN 0
    ELSE calculateRepRP(reps[1], reps[1].targetAngle) + RepsTotal(Tail(reps))

\* calculateSessionRP(sessionData, userStats): the total of the breakdown;
\* sessionStats gives whether completionRate and consistencyScore reach 0.8
calculateSessionRP(sessionData, userStats) ==
    LET sessionBonus == IF sessionData.completed THEN rpAwards.sessionComplete ELSE 0
        consistencyBonus == IF sessionData.consistent THEN rpAwards.consistencyBonus ELSE 0
        streakBonus == IF userStats.currentStreak > 0
                       THEN rpAwards.streakBonus * userStats.currentStreak ELSE 0
        personalBestBonus == IF userStats.isPersonalBest THEN rpAwards.personalBest ELSE 0
    IN RepsTotal(sessionData.reps) + sessionBonus + consistencyBonus
         + streakBonus + personalBestBonus

\* getUserLevel(totalRP).level: the level whose [minRP, maxRP) holds totalRP,
\* level 1 when none does
getUserLevel(totalRP) ==
    LET holding == {i \in 1..Len(levelMinRP) :
                       /\ totalRP >= levelMinRP[i]
                       /\ i < Len(levelMinRP) => totalRP < levelMinRP[i + 1]}
    IN IF holding = {} THEN 1 ELSE CHOOSE i \in holding : TRUE

\* checkLevelUp(oldRP, newRP): the bonus of a level-up, Null when there is none
checkLevelUp(oldRP, newRP) ==
    IF getUserLevel(newRP) > getUserLevel(oldRP) THEN rpAwards.difficultyIncrease
    ELSE Null

\* updateStreak({streakDays, lastActivity}), with lastActivity given as the
\* hours since it (Null when there was none)
updateStreak(streakDays, hoursSinceLastActivity) ==
    IF hoursSinceLastActivity = Null
    THEN [streakDays |-> 1, milestoneReached |-> FALSE, milestoneBonus |-> 0]
    ELSE IF hoursSinceLastActivity <= 24
    THEN [streakDays |-> streakDays, milestoneReached |-> FALSE, milestoneBonus |-> 0]
    ELSE IF hoursSinceLastActivity <= streaks.gracePeriod
    THEN LET newStreak == streakDays + 1 IN
         IF newStreak \in streaks.milestones
         THEN [streakDays |-> newStreak, milestoneReached |-> TRUE,
               milestoneBonus |-> newStreak * 10]
         ELSE [streakDays |-> newStreak, milestoneReached |-> FALSE, milestoneBonus |-> 0]
    ELSE [streakDays |-> 1, milestoneReached |-> FALSE, milestoneBonus |-> 0]

\* checkDailyGoal(todayStats)
checkDailyGoal(todayStats) ==
    LET goalMet == /\ todayStats.totalReps >= dailyGoal.minReps
                   /\ todayStats.exercisesCompleted >= dailyGoal.minExercises
                   /\ todayStats.totalDuration >= dailyGoal.minSessionDuration
    IN [goalMet |-> goalMet, bonusRP |-> IF goalMet THEN rpAwards.dailyGoalMet ELSE 0]

\* checkWeeklyGoal(weekSessions), for the number of sessions of the week
checkWeeklyGoal(sessionsThisWeek) ==
    LET goalMet == sessionsThisWeek >= 3
    IN [goalMet |-> goalMet, bonusRP |-> IF goalMet THEN rpAwards.weeklyGoalMet ELSE 0]

\* processSessionRewards(userId, sessionData, currentUserRewards,
\* recentActivity): the points of the summary it returns
processSessionRewards(sessionData, currentUserRewards, recentActivity) ==
    LET totalRP == currentUserRewards.totalRP
        streakInfo == updateStreak(currentUserRewards.streakDays,
                                   currentUserRewards.hoursSinceLastActivity)
        userStats == [currentStreak |-> streakInfo.streakDays,
                      isPersonalBest |-> sessionData.isPersonalBest]
        sessionRP == calculateSessionRP(sessionData, userStats)
        withMilestone == IF streakInfo.milestoneReached
                         THEN sessionRP + streakInfo.milestoneBonus ELSE sessionRP
        newTotalRP == totalRP + withMilestone
        levelUp == checkLevelUp(totalRP, newTotalRP)
        withLevelUp == IF levelUp # Null THEN withMilestone + levelUp ELSE withMilestone
        daily == checkDailyGoal(recentActivity.today)
        withDaily == IF daily.goalMet /\ ~recentActivity.dailyGoalMetToday
                     THEN withLevelUp + daily.bonusRP ELSE withLevelUp
        weekly == checkWeeklyGoal(recentActivity.thisWeek)
        withWeekly == IF weekly.goalMet /\ ~recentActivity.weeklyGoalMetThisWeek
                      THEN withDaily + weekly.bonusRP ELSE withDaily
    IN [ sessionRP |-> withWeekly, oldTotalRP |-> totalRP, newTotalRP |-> newTotalRP,
         rpEarned |-> withWeekly, level |-> getUserLevel(newTotalRP),
         leveledUp |-> levelUp # Null, streakDays |-> streakInfo.streakDays ]

(***************************************************************************)
(* processSessionRewards as a function: a drawn session, rewarded once     *)
(***************************************************************************)
\* a rep on target, and one 15 degrees short of it
RewardReps ==
    { <<>>,
      <<[avg |-> Deg(90), targetAngle |-> Deg(90)]>>,
      <<[avg |-> Deg(90), targetAngle |-> Deg(90)], [avg |-> Deg(105), targetAngle |-> Deg(90)]>> }

SessionsDrawn ==
    [ reps : RewardReps, completed : BOOLEAN, consistent : BOOLEAN,
      isPersonalBest : BOOLEAN ]

\* totals just below and well below the second level; streaks before a
\* milestone; a first session, the same day, within grace, after it
UserRewardsDrawn ==
    [ totalRP : {0, 150}, streakDays : {0, 2}, hoursSinceLastActivity : {Null, 12, 30, 48} ]

\* today's statistics: goal not met, goal met
TodayDrawn ==
    { [totalReps |-> 5, exercisesCompleted |-> 1, totalDuration |-> 400],
      [totalReps |-> 20, exercisesCompleted |-> 1, totalDuration |-> 300] }

RecentActivityDrawn ==
    [ today : TodayDrawn, dailyGoalMetToday : BOOLEAN,
      thisWeek : {1, 3}, weeklyGoalMetThisWeek : BOOLEAN ]

InitRewards ==
    /\ fn \in [ stage : {"drawn"}, call : {"rewards"}, sessionData : SessionsDrawn,
                currentUserRewards : UserRewardsDrawn,
                recentActivity : RecentActivityDrawn, result : {NoResult} ]
    /\ em = NewManager
    /\ rest = [samples |-> <<>>, records |-> 0, closed |-> <<>>]
    /\ frames = 0
    /\ resets = 0
    /\ AdaptOff
    /\ ShOff

ProcessSessionRewards ==
    /\ fn.stage = "drawn" /\ fn.call = "rewards"
    /\ fn' = [fn EXCEPT !.stage = "applied",
                        !.result = processSessionRewards(fn.sessionData,
                                       fn.currentUserRewards, fn.recentActivity)]
    /\ UNCHANGED <<emVars, adaptVars, shVars>>

NextRewards == ProcessSessionRewards

SpecRewards == InitRewards /\ [][NextRewards]_vars

\* C38: the total processSessionRewards returns is the old total plus the
\* points earned in the session, whatever bonuses the session earns
C38_LedgerConsistent ==
    Applied("rewards") => fn.result.newTotalRP = fn.result.oldTotalRP + fn.result.rpEarned

(***************************************************************************)
(* calculatePersonalTarget as a function: a drawn history with the target  *)
(* of the user's profile, applied once                                     *)
(***************************************************************************)
\* currentLevel.personalTarget of the profile: unset, inside and outside
\* the band from 0.7 to 1.3 times the standard target of 90 degrees
ProfileTargets == {Null, Deg(50), Deg(70), Deg(90), Deg(110), Deg(130)}

ProfileAngles == {Deg(60), Deg(80), Deg(90), Deg(100), Deg(120)}

ProfileHistories ==
    {[HistoryOf(angle, k) EXCEPT !.personalTarget = personalTarget] :
        angle \in ProfileAngles, k \in {3, 4, 5}, personalTarget \in ProfileTargets}

InitTarget ==
    /\ fn \in [ stage : {"drawn"}, call : {"target"}, userHistory : ProfileHistories,
                result : {NoResult} ]
    /\ em = NewManager
    /\ rest = [samples |-> <<>>, records |-> 0, closed |-> <<>>]
    /\ frames = 0
    /\ resets = 0
    /\ AdaptOff
    /\ ShOff

CalculatePersonalTarget ==
    /\ fn.stage = "drawn" /\ fn.call = "target"
    /\ fn' = [fn EXCEPT !.stage = "applied",
                        !.result = calculatePersonalTarget(fn.userHistory,
                                                           standardKneeTarget)]
    /\ UNCHANGED <<emVars, adaptVars, shVars>>

NextTarget == CalculatePersonalTarget

SpecTarget == InitTarget /\ [][NextTarget]_vars

\* C39: for a history of at least 3 sessions calculatePersonalTarget returns
\* a target at most maxTargetChangePerSession (8 degrees) from the previous
\* target
C39_PacedTargetChange ==
    Applied("target") =>
        LET currentTarget == IF fn.userHistory.personalTarget \in {Null, 0}
                             THEN standardKneeTarget
                             ELSE fn.userHistory.personalTarget
        IN Abs(fn.result.target - currentTarget) <= maxTargetChangePerSession

============================================================================
